---- MODULE Spec2Model ----
(***************************************************************************)
(* Model of the statement-resolution core of SEC-App:                      *)
(*   app/services/sec_service.py      (SECService)                         *)
(*   app/services/xbrl_parser.py      (XBRLParser)                         *)
(*   app/services/financial_ratios.py (FinancialRatioCalculator)           *)
(*                                                                         *)
(* Python strings are TLA+ strings; "x in s" is Contains(x, s) and         *)
(* s.lower() is Lower(s), both computed character by character.            *)
(* A JSON value is a record tagged by t; a dict is the sequence of its     *)
(* items in insertion order, which is the order Python iterates it in.     *)
(***************************************************************************)
EXTENDS Integers, Sequences, FiniteSets, TLC

VARIABLES
    phase,          \* the operation under way and its position
    report_type,    \* request: the report_type argument
    period,         \* request: the period argument
    facts,          \* _categorize_concepts_by_statement: its argument
    categorized,    \* _categorize_concepts_by_statement: its return value
    data,           \* _extract_financial_data: its data argument; in Tier 1 the filings
    financial_data, \* _extract_financial_data: its return value
    endpoint,       \* get_financial_statements: index of the url in the endpoints loops
    calls,          \* every session.get and time.sleep so far, in order
    accession,      \* target_accession / target_filing['accession_number']
    xbrl_files,     \* XBRLParser.get_financial_statements_xbrl: xbrl_files
    instance_data,  \* XBRLParser.get_financial_statements_xbrl: instance_data
    xbrl_data,      \* get_financial_statements: xbrl_data (the Tier 1 result)
    returned_by,    \* the tier whose return statement ended get_financial_statements
    result,         \* get_financial_statements: its return value
    extracted_values, \* _calculate_ratios: its values argument
    ratios,         \* _calculate_ratios: its return value
    caller,         \* the function that is calling get_financial_statements
    requests,       \* the caller's (cik, period) pairs, in the order of its loop
    resolved,       \* the get_financial_statements calls that returned, with their results
    aggregate,      \* historical_data / peer_group_data / the stored FinancialReports
    response        \* the caller's return value

requestVars  == <<report_type, period>>
classifyVars == <<facts, categorized>>
extractVars  == <<data, financial_data>>
resolveVars  == <<endpoint, calls, accession, xbrl_files, instance_data, xbrl_data,
                  returned_by, result>>

ratioVars    == <<extracted_values, ratios>>

callerVars   == <<caller, requests, resolved, aggregate, response>>

vars == <<phase, requestVars, classifyVars, extractVars, resolveVars, ratioVars,
          callerVars>>

---------------------------------------------------------------------------
(* Strings *)

UpperChars == "ABCDEFGHIJKLMNOPQRSTUVWXYZ"
LowerChars == "abcdefghijklmnopqrstuvwxyz"

\* str.lower() on one character
LowerChar(c) ==
    IF \E i \in 1..Len(UpperChars) : SubSeq(UpperChars, i, i) = c
    THEN LET i == CHOOSE j \in 1..Len(UpperChars) : SubSeq(UpperChars, j, j) = c
         IN  SubSeq(LowerChars, i, i)
    ELSE c

RECURSIVE Lower(_)
\* str.lower()
Lower(s) ==
    IF Len(s) = 0 THEN ""
    ELSE LowerChar(SubSeq(s, 1, 1)) \o Lower(SubSeq(s, 2, Len(s)))

\* Python's "k in s" on strings (the empty string is in every string)
Contains(k, s) ==
    \/ Len(k) = 0
    \/ \E i \in 1..(Len(s) - Len(k) + 1) : SubSeq(s, i, i + Len(k) - 1) = k

Range(f) == {f[i] : i \in DOMAIN f}

---------------------------------------------------------------------------
(* Concept classifier: SECService._categorize_concepts_by_statement *)

\* iteration order of the statement_keywords and categorized dicts
StatementTypes == <<"income_statement", "balance_sheet", "cash_flow">>

statement_keywords ==
    [income_statement |->
        <<"revenue", "sales", "income", "profit", "loss", "earnings", "expense", "cost",
          "gross", "operating", "eps", "per share", "research", "development">>,
     balance_sheet |->
        <<"asset", "liability", "equity", "cash", "receivable", "payable", "inventory",
          "debt", "stock", "capital", "retained", "current", "total", "shares",
          "other comprehensive income", "goodwill", "intangible", "available for sale">>,
     cash_flow |->
        <<"cash flow", "operating activities", "investing activities", "financing activities",
          "cash provided", "cash used", "payments", "proceeds", "capital expenditures",
          "proceeds from", "payments to", "payments for repurchases of common stock",
          "Increase (Decrease)", "increase", "decrease", "depreciation", "amortization">>]

\* description = concept_data.get('label') or concept_name or '', lower-cased.
\* A concept's label is "" when the key is missing, None or empty.
Description(concept) ==
    Lower(IF concept.label # "" THEN concept.label ELSE concept.key)

\* any(keyword.lower() in description for keyword in ['increase', 'decrease'])
HasIncreaseDecrease(description) ==
    \E keyword \in {"increase", "decrease"} : Contains(Lower(keyword), description)

\* 'comprehensive income' in description
HasComprehensiveIncome(description) ==
    Contains("comprehensive income", description)

\* score: one point per keyword of the list that occurs in the description
Score(statement_type, description) ==
    LET keywords == statement_keywords[statement_type]
    IN  Cardinality({i \in 1..Len(keywords) : Contains(keywords[i], description)})

\* the scores dict
Scores(description) ==
    [statement_type \in Range(StatementTypes) |-> Score(statement_type, description)]

\* mutant: the last statement type with the maximal score wins
BestStatementLast(scores) ==
    LET i == CHOOSE j \in 1..Len(StatementTypes) :
                /\ \A k \in 1..Len(StatementTypes) :
                     scores[StatementTypes[k]] <= scores[StatementTypes[j]]
                /\ \A k \in (j + 1)..Len(StatementTypes) :
                     scores[StatementTypes[k]] < scores[StatementTypes[j]]
    IN  StatementTypes[i]

\* max(scores.keys(), key=lambda k: scores[k]): the first key, in dict order,
\* whose score is maximal
BestStatement(scores) ==
    LET i == CHOOSE j \in 1..Len(StatementTypes) :
                /\ \A k \in 1..Len(StatementTypes) :
                     scores[StatementTypes[k]] <= scores[StatementTypes[j]]
                /\ \A k \in 1..(j - 1) :
                     scores[StatementTypes[k]] < scores[StatementTypes[j]]
    IN  StatementTypes[i]

\* the scoring branch: the lists the concept is appended to, in order
ScoredStatements(description) ==
    LET scores == Scores(description)
    IN  IF \E st \in DOMAIN scores : scores[st] # 0
        THEN LET best_statement == BestStatement(scores)
             IN  IF scores[best_statement] > 0 THEN <<best_statement>> ELSE <<>>
        ELSE <<>>

\* mutant: the 'continue' after the increase/decrease branch is missing
AssignedStatementsNoContinue(description) ==
    IF HasIncreaseDecrease(description)
    THEN <<"cash_flow">> \o ScoredStatements(description)
    ELSE IF HasComprehensiveIncome(description)
         THEN <<"balance_sheet">>
         ELSE ScoredStatements(description)

\* mutant: the increase/decrease branch is missing
AssignedStatementsNoIncDec(description) ==
    IF HasComprehensiveIncome(description)
    THEN <<"balance_sheet">>
    ELSE ScoredStatements(description)

\* mutant: the comprehensive-income branch is missing
AssignedStatementsNoComprehensive(description) ==
    IF HasIncreaseDecrease(description)
    THEN <<"cash_flow">>
    ELSE ScoredStatements(description)

\* the body of the loop over facts.items(): the lists of 'categorized' the
\* concept is appended to (one at most)
AssignedStatements(description) ==
    IF HasIncreaseDecrease(description)
    THEN <<"cash_flow">>
    ELSE IF HasComprehensiveIncome(description)
         THEN <<"balance_sheet">>
         ELSE ScoredStatements(description)

RECURSIVE KeysAssignedTo(_, _, _)
\* the concept names appended to categorized[statement_type], in the order of facts
KeysAssignedTo(statement_type, concepts, assigned) ==
    IF concepts = <<>> THEN <<>>
    ELSE LET hits == SelectSeq(Head(assigned), LAMBDA s : s = statement_type)
         IN  [i \in 1..Len(hits) |-> Head(concepts).key]
                \o KeysAssignedTo(statement_type, Tail(concepts), Tail(assigned))

\* concepts: the items of the facts dict, each [key, label]
categorize_concepts_by_statement(concepts) ==
    LET assigned == [i \in 1..Len(concepts) |-> AssignedStatements(Description(concepts[i]))]
    IN  [statement_type \in Range(StatementTypes) |->
            KeysAssignedTo(statement_type, concepts, assigned)]

---------------------------------------------------------------------------
(* Inputs of the classifier runs: concepts as the SEC documents label them *)

NoResult == [none |-> TRUE]

\* no get_financial_statements call is under way
ResolveIdle ==
    /\ endpoint = 0
    /\ calls = <<>>
    /\ accession = ""
    /\ xbrl_files = {}
    /\ instance_data = NoResult
    /\ xbrl_data = NoResult
    /\ returned_by = 0
    /\ result = NoResult

\* no ratio calculation under way
RatiosIdle ==
    /\ extracted_values = NoResult
    /\ ratios = NoResult

\* get_financial_statements is not called from a loop or a handler
CallerIdle ==
    /\ caller = "none"
    /\ requests = <<>>
    /\ resolved = <<>>
    /\ aggregate = <<>>
    /\ response = NoResult

MaxConcepts == 2

SampleConcepts ==
    { [key |-> "us-gaap.Revenues",                 label |-> "Revenues"],
      [key |-> "us-gaap.InventoryNet",             label |-> "Decrease in Inventory"],
      [key |-> "us-gaap.IncreaseDecreaseInAccountsReceivable",
                                                   label |-> "Increase (Decrease) in Accounts Receivable"],
      [key |-> "us-gaap.OtherComprehensiveIncomeLossNetOfTax",
                                                   label |-> "Other Comprehensive Income (Loss), Net of Tax"],
      [key |-> "us-gaap.ComprehensiveIncomeNetOfTax",
                                                   label |-> "Comprehensive Income, Period Increase (Decrease)"],
      [key |-> "us-gaap.ComprehensiveIncomeNetOfTax",
                                                   label |-> "Comprehensive Income (Loss), Net of Tax"],
      [key |-> "us-gaap.RepaymentsOfDebt",         label |-> "Payments of Debt"],
      [key |-> "us-gaap.Depreciation",             label |-> "Depreciation Expense"],
      [key |-> "us-gaap.CostOfInventory",          label |-> "Cost of Inventory"],
      [key |-> "us-gaap.OperatingCashPayments",    label |-> "Operating Cash Payments"],
      [key |-> "dei.EntityRegistrantName",         label |-> "Entity Registrant Name"],
      [key |-> "us-gaap.NetCashProvidedByUsedInOperatingActivities",
                                                   label |-> "Net Cash Provided by Operating Activities"],
      [key |-> "us-gaap.AssetsCurrent",            label |-> "Total Current Assets"],
      [key |-> "us-gaap.StockholdersEquity",       label |-> ""],
      [key |-> "us-gaap.NetIncomeLoss",            label |-> ""],
      [key |-> "us-gaap.IncreaseDecreaseInInventories", label |-> ""],
      [key |-> "us-gaap.InventoryNet",             label |-> ""],
      [key |-> "dei.EntityRegistrantName",         label |-> ""],
      [key |-> "dei.EntityCommonStockSharesOutstanding",
                                                   label |-> "Entity Common Stock, Shares Outstanding"],
      [key |-> "us-gaap.ProceedsFromIssuanceOfCommonStock",
                                                   label |-> "Proceeds from Issuance of Common Stock"] }

Keys(concepts) == {concepts[i].key : i \in DOMAIN concepts}

---------------------------------------------------------------------------
(* Classifier runs *)

InitClassify ==
    /\ phase = "classify_input"
    /\ facts = <<>>
    /\ categorized = NoResult
    /\ report_type = ""
    /\ period = ""
    /\ data = NoResult
    /\ financial_data = NoResult
    /\ ResolveIdle
    /\ RatiosIdle
    /\ CallerIdle

\* the caller builds the dict: keys are unique
AddConcept ==
    /\ phase = "classify_input"
    /\ Len(facts) < MaxConcepts
    /\ \E c \in SampleConcepts :
          /\ c.key \notin Keys(facts)
          /\ facts' = Append(facts, c)
    /\ UNCHANGED <<phase, categorized, requestVars, callerVars, ratioVars, extractVars, resolveVars>>

Categorize ==
    /\ phase = "classify_input"
    /\ phase' = "classify_done"
    /\ categorized' = categorize_concepts_by_statement(facts)
    /\ UNCHANGED <<facts, requestVars, callerVars, ratioVars, extractVars, resolveVars>>

NextClassify == AddConcept \/ Categorize

SpecClassify == InitClassify /\ [][NextClassify]_vars

---------------------------------------------------------------------------
(* JSON values as response.json() returns them *)

JS(s)        == [t |-> "str", s |-> s]
JN(n)        == [t |-> "num", n |-> n]
JNull        == [t |-> "null"]
JMissing     == [t |-> "missing"]                 \* the key is not in the dict
JDict(items) == [t |-> "dict", items |-> items]   \* items: sequence of [k, v]
JList(elems) == [t |-> "list", elems |-> elems]

\* one entry of a units list: a dict with the keys form, end, fp, val
\* (fy, filed and accn are copied to the entry unread and are left out)
JFact(form, end, fp, val) ==
    [t |-> "fact", form |-> form, end |-> end, fp |-> fp, val |-> val]

\* k in d
HasKey(d, k) == \E i \in DOMAIN d.items : d.items[i].k = k

\* d[k]
Item(d, k) == d.items[CHOOSE i \in DOMAIN d.items : d.items[i].k = k].v

\* d.get(k, default)
Get(d, k, default) == IF HasKey(d, k) THEN Item(d, k) ELSE default

\* value.get(field, default) on a units entry
Field(v, default) == IF v.t = "missing" THEN default ELSE v

\* bool(v)
Truthy(v) ==
    CASE v.t = "str"  -> v.s # ""
      [] v.t = "num"  -> v.n # 0
      [] v.t = "dict" -> v.items # <<>>
      [] v.t = "list" -> v.elems # <<>>
      [] v.t = "fact" -> TRUE
      [] OTHER        -> FALSE

\* d[k] = v on an ordered dict: a new key goes last, an old key keeps its place
DictSet(items, k, v) ==
    IF \E i \in DOMAIN items : items[i].k = k
    THEN [i \in DOMAIN items |-> IF items[i].k = k THEN [k |-> k, v |-> v] ELSE items[i]]
    ELSE Append(items, [k |-> k, v |-> v])

DictKeys(items) == {items[i].k : i \in DOMAIN items}

RECURSIVE Flatten(_)
Flatten(seqs) == IF seqs = <<>> THEN <<>> ELSE Head(seqs) \o Flatten(Tail(seqs))

---------------------------------------------------------------------------
(* Period matching and extraction: SECService._extract_financial_data *)

FiscalPeriods == {"FY", "Q4", "", "Q1", "Q2", "Q3"}

\* mutant: the form is matched as in Tier 1, by containment
FormMatchesContained(value_form, rtype) ==
    value_form.t = "str" /\ Contains(rtype, value_form.s)

\* value_form == report_type
FormMatches(value_form, rtype) ==
    value_form.t = "str" /\ value_form.s = rtype

\* value_end and str(period) in value_end
EndMatches(value_end, per) ==
    Truthy(value_end) /\ value_end.t = "str" /\ Contains(per, value_end.s)

\* value_fp == 'FY' or value_fp == 'Q4' or value_fp == '' or value_fp in [...]
FiscalPeriodMatches(value_fp) ==
    value_fp.t = "str" /\ value_fp.s \in FiscalPeriods

\* the period_match of the second loop (lines 310-318): no test of val
PeriodMatch(value, rtype, per) ==
    /\ FormMatches(Field(value.form, JNull), rtype)
    /\ EndMatches(Field(value.end, JS("")), per)
    /\ FiscalPeriodMatches(Field(value.fp, JS("")))

\* mutant: the first loop does not test val
HasReportedValueMatchNoVal(value, rtype, per) ==
    PeriodMatch(value, rtype, per)

\* the condition of the first loop (lines 255-259)
HasReportedValueMatch(value, rtype, per) ==
    /\ FormMatches(Field(value.form, JNull), rtype)
    /\ EndMatches(Field(value.end, JS("")), per)
    /\ FiscalPeriodMatches(Field(value.fp, JS("")))
    /\ Field(value.val, JNull).t # "null"

\* "for value in values" of the first loop over one units item:
\* "hit" (break with has_reported_value), "miss", or "raise" when values is
\* not a list and iterating it or calling .get on its elements raises
ScanValues(values, rtype, per) ==
    CASE values.t = "list" ->
            IF \E i \in DOMAIN values.elems :
                    HasReportedValueMatch(values.elems[i], rtype, per)
            THEN "hit" ELSE "miss"
      [] values.t = "dict" -> IF values.items = <<>> THEN "miss" ELSE "raise"
      [] values.t = "str"  -> IF values.s = "" THEN "miss" ELSE "raise"
      [] OTHER -> "raise"

RECURSIVE ScanUnits(_, _, _)
\* "for unit_key, values in concept_data['units'].items()" of the first loop
ScanUnits(units, rtype, per) ==
    IF units = <<>> THEN "miss"
    ELSE LET r == ScanValues(Head(units).v, rtype, per)
         IN  IF r = "miss" THEN ScanUnits(Tail(units), rtype, per) ELSE r

\* the (full_concept_name, concept_data) pairs in the order the nested loops
\* over facts.items() and category_data.items() visit them
ConceptItems(categories) ==
    Flatten([i \in DOMAIN categories |->
        IF categories[i].v.t = "dict"
        THEN [j \in DOMAIN categories[i].v.items |->
                [k |-> categories[i].k \o "." \o categories[i].v.items[j].k,
                 v |-> categories[i].v.items[j].v]]
        ELSE <<>>])

RECURSIVE ReportedConcepts(_, _, _, _)
\* the first loop: reported_concepts, or raised when a statement of it raises
ReportedConcepts(items, reported, rtype, per) ==
    IF items = <<>> THEN [raised |-> FALSE, reported |-> reported]
    ELSE LET concept_data == Head(items).v
             abort == [raised |-> TRUE, reported |-> reported]
         IN  IF concept_data.t # "dict" THEN abort       \* concept_data.get(...)
             ELSE IF ~HasKey(concept_data, "units")
             THEN ReportedConcepts(Tail(items), reported, rtype, per)
             ELSE LET units == Item(concept_data, "units")
                  IN  IF units.t # "dict" THEN abort     \* units.items()
                      ELSE LET r == ScanUnits(units.items, rtype, per)
                           IN  CASE r = "raise" -> abort
                                 [] r = "hit" ->
                                     ReportedConcepts(Tail(items),
                                         DictSet(reported, Head(items).k, concept_data),
                                         rtype, per)
                                 [] OTHER ->
                                     ReportedConcepts(Tail(items), reported, rtype, per)

\* concept_data.get('label') as the classifier reads it
LabelText(concept_data) ==
    LET label == Get(concept_data, "label", JNull)
    IN  IF label.t = "str" THEN label.s ELSE ""

\* the facts argument handed to _categorize_concepts_by_statement
ClassifierInput(reported) ==
    [i \in DOMAIN reported |-> [key |-> reported[i].k, label |-> LabelText(reported[i].v)]]

\* the (unit_key, value) pairs of a concept in the order the second loop visits them
UnitValues(units) ==
    Flatten([i \in DOMAIN units |->
        IF units[i].v.t = "list"
        THEN [j \in DOMAIN units[i].v.elems |->
                [unit |-> units[i].k, value |-> units[i].v.elems[j]]]
        ELSE <<>>])

\* the entry stored for a matching value
Entry(concept_name, concept_data, unit_key, value) ==
    [value         |-> Field(value.val, JNull),
     unit          |-> unit_key,
     period        |-> Field(value.end, JNull),
     fiscal_period |-> Field(value.fp, JNull),
     label         |-> Get(concept_data, "label", JS(concept_name))]

\* the second loop for one concept: the entry of the first value with
\* period_match, as a sequence of zero or one entries
FirstEntry(concept_name, concept_data, rtype, per) ==
    LET uv   == UnitValues(Item(concept_data, "units").items)
        hits == {i \in DOMAIN uv : PeriodMatch(uv[i].value, rtype, per)}
    IN  IF hits = {} THEN <<>>
        ELSE LET i == CHOOSE j \in hits : \A k \in hits : j <= k
             IN  <<Entry(concept_name, concept_data, uv[i].unit, uv[i].value)>>

RECURSIVE StatementEntries(_, _, _, _, _)
\* financial_data[statement_type] after the second loop over its concepts
StatementEntries(names, reported, entries, rtype, per) ==
    IF names = <<>> THEN entries
    ELSE LET concept_data == Item([items |-> reported], Head(names))
             e == FirstEntry(Head(names), concept_data, rtype, per)
         IN  StatementEntries(Tail(names), reported,
                 IF e = <<>> THEN entries ELSE DictSet(entries, Head(names), e[1]),
                 rtype, per)

EmptyStatements ==
    [income_statement |-> <<>>, balance_sheet |-> <<>>, cash_flow |-> <<>>]

\* a returned dict: its top-level keys, the three statement dicts when they are
\* top-level keys, and the dict under 'financial_statements' when that is one
Bundle(keys, statements, financial_statements) ==
    [keys |-> keys,
     income_statement |-> statements.income_statement,
     balance_sheet    |-> statements.balance_sheet,
     cash_flow        |-> statements.cash_flow,
     financial_statements |-> financial_statements]

\* {}
EmptyDict == Bundle({}, EmptyStatements, <<>>)

BaseKeys == {"income_statement", "balance_sheet", "cash_flow", "raw_data"}

\* the 'facts' branch of _extract_financial_data (lines 217-338)
ExtractFacts(facts_value, rtype, per) ==
    IF facts_value.t # "dict"                      \* facts.keys()
    THEN Bundle(BaseKeys \cup {"error"}, EmptyStatements, <<>>)
    ELSE LET first == ReportedConcepts(ConceptItems(facts_value.items), <<>>, rtype, per)
         IN  IF first.raised
             THEN Bundle(BaseKeys \cup {"error"}, EmptyStatements, <<>>)
             ELSE LET cat == categorize_concepts_by_statement(ClassifierInput(first.reported))
                  IN  Bundle(BaseKeys \cup {"all_labels", "all_concepts"},
                             [statement_type \in Range(StatementTypes) |->
                                 StatementEntries(cat[statement_type], first.reported,
                                                  <<>>, rtype, per)],
                             <<>>)

\* the 'units' branch (lines 396-428): company-concept data fills no statement
ExtractUnits(units_value, rtype, per) ==
    IF units_value.t # "dict"                      \* units.items()
    THEN Bundle(BaseKeys \cup {"error"}, EmptyStatements, <<>>)
    ELSE IF \E i \in DOMAIN units_value.items :
                units_value.items[i].v.t # "list"
         THEN Bundle(BaseKeys \cup {"error"}, EmptyStatements, <<>>)
         ELSE LET uv == UnitValues(units_value.items)
              IN  IF \E i \in DOMAIN uv : PeriodMatch(uv[i].value, rtype, per)
                  THEN Bundle(BaseKeys \cup {"concept_data"}, EmptyStatements, <<>>)
                  ELSE Bundle(BaseKeys, EmptyStatements, <<>>)

\* _extract_financial_data on data without a 'filings' key; the 'filings'
\* branch fetches and is a step of its own (ExtractSubmissions)
extract_financial_data(d, rtype, per) ==
    IF HasKey(d, "facts") THEN ExtractFacts(Item(d, "facts"), rtype, per)
    ELSE IF HasKey(d, "units") THEN ExtractUnits(Item(d, "units"), rtype, per)
    ELSE Bundle(BaseKeys \cup {"unknown_structure", "available_keys"}, EmptyStatements, <<>>)

---------------------------------------------------------------------------
(* Inputs of the extraction runs *)

MaxFacts == 2
MaxUnits == 2

ReportTypes == {"10-K", "10-Q"}
Periods     == {"2023", ""}

FactDomain ==
    { JFact(form, end, fp, val) :
        form \in {JS("10-K"), JS("10-K/A"), JS("10-Q")},
        end  \in {JS("2023-12-31"), JS("2022-12-31"), JMissing},
        fp   \in {JS("FY"), JS("Q2"), JS("H1"), JMissing, JNull},
        val  \in {JN(100), JNull} }

\* the values a units list goes on with
ProbeFacts ==
    { JFact(JS("10-K"), JS("2023-12-31"), JS("FY"), JN(200)),
      JFact(JS("10-K"), JS("2023-12-31"), JS("FY"), JNull),
      JFact(JS("10-Q"), JS("2023-06-30"), JS("Q2"), JN(300)) }

UnitKeys == <<"USD", "shares", "USD/shares", "pure">>

\* a concept as companyfacts lists it: label, description, units
Concept(label, units) ==
    JDict(<<[k |-> "label", v |-> JS(label)],
            [k |-> "description", v |-> JS("...")],
            [k |-> "units", v |-> JDict(units)]>>)

\* a companyfacts document with one taxonomy and its concepts
FactsDoc(taxonomy, concepts) ==
    JDict(<<[k |-> "cik", v |-> JN(320193)],
            [k |-> "facts", v |-> JDict(<<[k |-> taxonomy, v |-> JDict(concepts)]>>)]>>)

ExtractConcepts ==
    { [name |-> "Revenues", label |-> "Revenues"],
      [name |-> "EntityRegistrantName", label |-> "Entity Registrant Name"],
      [name |-> "Liabilities", label |-> ""] }

\* the units of the one concept of an extraction run's document
DocConcept(d) == Item(Item(d, "facts"), "us-gaap").items[1]
DocUnits(d)   == Item(DocConcept(d).v, "units").items
DocFacts(d)   == UnitValues(DocUnits(d))

WithUnits(d, units) ==
    FactsDoc("us-gaap",
        <<[k |-> DocConcept(d).k,
           v |-> Concept(Item(DocConcept(d).v, "label").s, units)]>>)

---------------------------------------------------------------------------
(* Extraction runs *)

InitExtract ==
    /\ phase = "extract_input"
    /\ report_type \in ReportTypes
    /\ period \in Periods
    /\ \E c \in ExtractConcepts, f \in FactDomain :
          data = FactsDoc("us-gaap",
                    <<[k |-> c.name,
                       v |-> Concept(c.label, <<[k |-> UnitKeys[1], v |-> JList(<<f>>)]>>)]>>)
    /\ financial_data = NoResult
    /\ facts = <<>>
    /\ categorized = NoResult
    /\ ResolveIdle
    /\ RatiosIdle
    /\ CallerIdle

\* one more value in the last units list of the document
AddFact ==
    /\ phase = "extract_input"
    /\ Len(DocFacts(data)) < MaxFacts
    /\ \E f \in ProbeFacts :
          LET units == DocUnits(data)
              n     == Len(units)
          IN  data' = WithUnits(data,
                        [units EXCEPT ![n].v = JList(Append(units[n].v.elems, f))])
    /\ UNCHANGED <<phase, requestVars, callerVars, ratioVars, financial_data, classifyVars, resolveVars>>

\* one more unit, with one value, in the document
AddUnit ==
    /\ phase = "extract_input"
    /\ Len(DocFacts(data)) < MaxFacts
    /\ Len(DocUnits(data)) < MaxUnits
    /\ \E f \in ProbeFacts :
          LET units == DocUnits(data)
          IN  data' = WithUnits(data,
                        Append(units, [k |-> UnitKeys[Len(units) + 1], v |-> JList(<<f>>)]))
    /\ UNCHANGED <<phase, requestVars, callerVars, ratioVars, financial_data, classifyVars, resolveVars>>

Extract ==
    /\ phase = "extract_input"
    /\ phase' = "extract_done"
    /\ financial_data' = extract_financial_data(data, report_type, period)
    /\ UNCHANGED <<requestVars, callerVars, ratioVars, data, classifyVars, resolveVars>>

NextExtract == AddFact \/ AddUnit \/ Extract

SpecExtract == InitExtract /\ [][NextExtract]_vars

---------------------------------------------------------------------------
(* Properties of the classifier runs (SpecClassify) *)

InList(x, list) == \E i \in DOMAIN list : list[i] = x

\* the text the classifier reads for a concept: the label, else the name
TextOf(concept) == Lower(IF concept.label # "" THEN concept.label ELSE concept.key)

\* C6: a concept whose lower-cased label (or name, when it has no label)
\* contains "increase" or "decrease" is placed in cash_flow and in no other
\* statement, whatever the keyword scores are.
C6_IncreaseDecreaseToCashFlow ==
    phase = "classify_done" =>
        \A i \in DOMAIN facts :
            (Contains("increase", TextOf(facts[i])) \/ Contains("decrease", TextOf(facts[i])))
            => /\ InList(facts[i].key, categorized.cash_flow)
               /\ ~InList(facts[i].key, categorized.balance_sheet)
               /\ ~InList(facts[i].key, categorized.income_statement)

\* "Decrease in Inventory" is in cash_flow although its balance_sheet score
\* is not below its cash_flow score
C6_Witness ==
    /\ phase = "classify_done"
    /\ \E i \in DOMAIN facts :
         /\ facts[i].label = "Decrease in Inventory"
         /\ InList(facts[i].key, categorized.cash_flow)
         /\ ~InList(facts[i].key, categorized.balance_sheet)
         /\ Score("balance_sheet", TextOf(facts[i])) >= Score("cash_flow", TextOf(facts[i]))

\* C7 as stated: a concept whose label contains "comprehensive income" is
\* placed in balance_sheet regardless of its keyword scores.
C7_ComprehensiveIncomeToBalanceSheet ==
    phase = "classify_done" =>
        \A i \in DOMAIN facts :
            Contains("comprehensive income", TextOf(facts[i]))
            => InList(facts[i].key, categorized.balance_sheet)

\* C7 amended: a concept whose label contains "comprehensive income" and
\* neither "increase" nor "decrease" is placed in balance_sheet, and in no
\* other statement, regardless of its keyword scores; with "increase" or
\* "decrease" in the label it is placed in cash_flow.
C7_ComprehensiveIncomeWithoutIncreaseDecrease ==
    phase = "classify_done" =>
        \A i \in DOMAIN facts :
            Contains("comprehensive income", TextOf(facts[i]))
            => IF Contains("increase", TextOf(facts[i])) \/ Contains("decrease", TextOf(facts[i]))
               THEN /\ InList(facts[i].key, categorized.cash_flow)
                    /\ ~InList(facts[i].key, categorized.balance_sheet)
               ELSE /\ InList(facts[i].key, categorized.balance_sheet)
                    /\ ~InList(facts[i].key, categorized.income_statement)
                    /\ ~InList(facts[i].key, categorized.cash_flow)

\* a comprehensive-income label is in balance_sheet although income_statement
\* scores higher on it
C7_Witness ==
    /\ phase = "classify_done"
    /\ \E i \in DOMAIN facts :
         /\ Contains("comprehensive income", TextOf(facts[i]))
         /\ InList(facts[i].key, categorized.balance_sheet)
         /\ Score("income_statement", TextOf(facts[i])) > Score("balance_sheet", TextOf(facts[i]))

\* the number of keywords of a statement type that occur in a text
KeywordHits(statement_type, text) ==
    Cardinality({i \in DOMAIN statement_keywords[statement_type] :
                    Contains(statement_keywords[statement_type][i], text)})

NoShortCircuit(text) ==
    /\ ~Contains("increase", text)
    /\ ~Contains("decrease", text)
    /\ ~Contains("comprehensive income", text)

\* C8: a concept whose label triggers no short-circuit is placed in the
\* statement with the highest keyword count, the first one in the order
\* income_statement, balance_sheet, cash_flow among equals, and in no other;
\* it is placed in no statement when all three counts are zero.
C8_HighestScoreFirstWins ==
    phase = "classify_done" =>
        \A i \in DOMAIN facts :
            NoShortCircuit(TextOf(facts[i]))
            => \A j \in DOMAIN StatementTypes :
                  InList(facts[i].key, categorized[StatementTypes[j]])
                  <=> /\ KeywordHits(StatementTypes[j], TextOf(facts[i])) > 0
                      /\ \A k \in DOMAIN StatementTypes :
                           KeywordHits(StatementTypes[k], TextOf(facts[i]))
                              <= KeywordHits(StatementTypes[j], TextOf(facts[i]))
                      /\ \A k \in 1..(j - 1) :
                           KeywordHits(StatementTypes[k], TextOf(facts[i]))
                              < KeywordHits(StatementTypes[j], TextOf(facts[i]))

\* one run with a tie between balance_sheet and cash_flow that balance_sheet
\* wins, and a concept that scores zero everywhere and is dropped
C8_Witness ==
    /\ phase = "classify_done"
    /\ \E i \in DOMAIN facts :
         /\ NoShortCircuit(TextOf(facts[i]))
         /\ KeywordHits("balance_sheet", TextOf(facts[i])) > 0
         /\ KeywordHits("balance_sheet", TextOf(facts[i]))
               = KeywordHits("cash_flow", TextOf(facts[i]))
         /\ InList(facts[i].key, categorized.balance_sheet)
    /\ \E i \in DOMAIN facts :
         /\ \A j \in DOMAIN StatementTypes : KeywordHits(StatementTypes[j], TextOf(facts[i])) = 0
         /\ \A j \in DOMAIN StatementTypes : ~InList(facts[i].key, categorized[StatementTypes[j]])

---------------------------------------------------------------------------
(* Properties of the extraction runs (SpecExtract) *)

\* the Period Matcher predicate as the specification states it
BelongsToRequest(value, rtype, per) ==
    /\ value.form.t = "str" /\ value.form.s = rtype
    /\ per # ""
    /\ value.end.t = "str" /\ Contains(per, value.end.s)
    /\ \/ value.fp.t = "missing"
       \/ value.fp.t = "str" /\ value.fp.s \in {"FY", "Q1", "Q2", "Q3", "Q4", ""}
    /\ value.val.t \notin {"null", "missing"}

StatementKeys(bundle) ==
    DictKeys(bundle.income_statement) \cup DictKeys(bundle.balance_sheet)
        \cup DictKeys(bundle.cash_flow)

\* C5: a reported fact is treated as belonging to the request iff its form
\* equals report_type, the requested period is a non-empty substring of its
\* end date, its fiscal-period tag is FY, Q1..Q4 or empty, and its value is
\* not null; a concept enters a statement only if one of its facts does.
C5_PeriodMatcher ==
    phase = "extract_done" =>
        /\ \A i \in DOMAIN DocFacts(data) :
              HasReportedValueMatch(DocFacts(data)[i].value, report_type, period)
              <=> BelongsToRequest(DocFacts(data)[i].value, report_type, period)
        /\ StatementKeys(financial_data) # {}
              => \E i \in DOMAIN DocFacts(data) :
                    BelongsToRequest(DocFacts(data)[i].value, report_type, period)

\* C19: the entry stored for a classified concept is that of the first fact,
\* in the order of the units and of the values of each unit, that belongs to
\* the request (form, period, fiscal period and a value that is not null);
\* no stored entry has a null value.
C19_FirstMatchingFactStored ==
    phase = "extract_done" =>
        \A statement_type \in Range(StatementTypes) :
            \A e \in DOMAIN financial_data[statement_type] :
                LET entry == financial_data[statement_type][e].v
                    uv    == DocFacts(data)
                    hits  == {i \in DOMAIN uv :
                                BelongsToRequest(uv[i].value, report_type, period)}
                IN  /\ entry.value # JNull
                    /\ \E i \in hits :
                          /\ \A h \in hits : i <= h
                          /\ entry.value = uv[i].value.val
                          /\ entry.unit = uv[i].unit

---------------------------------------------------------------------------
(* Tier 1: XBRLParser.categorize_financial_data *)

categories ==
    [income_statement |->
        <<"Revenues", "RevenueFromContractWithCustomerExcludingAssessedTax",
          "SalesRevenueNet", "CostOfGoodsAndServicesSold", "CostOfRevenue",
          "GrossProfit", "OperatingExpenses", "SellingAndMarketingExpense",
          "GeneralAndAdministrativeExpense", "ResearchAndDevelopmentExpense",
          "OperatingIncomeLoss", "InterestExpense", "InterestIncome",
          "IncomeTaxExpenseBenefit", "NetIncomeLoss", "EarningsPerShareBasic",
          "EarningsPerShareDiluted", "WeightedAverageNumberOfSharesOutstandingBasic",
          "WeightedAverageNumberOfSharesOutstandingDiluted",
          "IncomeLossFromContinuingOperationsBeforeIncomeTaxes",
          "IncomeLossFromContinuingOperationsAfterIncomeTaxes">>,
     balance_sheet |->
        <<"Assets", "CurrentAssets", "CashAndCashEquivalentsAtCarryingValue",
          "CashAndCashEquivalents", "AccountsReceivableNetCurrent", "InventoryNet",
          "InventoryGross", "PrepaidExpenseAndOtherAssetsCurrent", "PropertyPlantAndEquipmentNet",
          "PropertyPlantAndEquipmentGross", "IntangibleAssetsNetExcludingGoodwill",
          "IntangibleAssetsGrossExcludingGoodwill", "Goodwill", "Liabilities",
          "CurrentLiabilities", "AccountsPayableCurrent", "AccruedLiabilitiesCurrent",
          "LongTermDebtNoncurrent", "DeferredTaxLiabilitiesNoncurrent", "StockholdersEquity",
          "CommonStockValue", "RetainedEarningsAccumulatedDeficit", "TreasuryStockValue",
          "AdditionalPaidInCapital", "TotalStockholdersEquity">>,
     cash_flow |->
        <<"NetCashProvidedByUsedInOperatingActivities", "NetCashProvidedByUsedInInvestingActivities",
          "NetCashProvidedByUsedInFinancingActivities", "CashAndCashEquivalentsPeriodIncreaseDecrease",
          "CashAndCashEquivalentsAtCarryingValue", "PaymentsToAcquirePropertyPlantAndEquipment",
          "ProceedsFromSaleOfPropertyPlantAndEquipment",
          "PaymentsForBusinessAcquisitionsNetOfCashAcquired",
          "ProceedsFromIssuanceOfCommonStock", "PaymentsForRepurchaseOfCommonStock",
          "PaymentsOfDividends", "CashAndCashEquivalentsAtBeginningOfPeriod",
          "CashAndCashEquivalentsAtEndOfPeriod">>]

\* pattern.lower() of every pattern
patterns_lower ==
    [statement_type \in DOMAIN categories |->
        [i \in DOMAIN categories[statement_type] |->
            Lower(categories[statement_type][i])]]

\* any(pattern.lower() in concept_lower for pattern in patterns)
MatchesPattern(statement_type, concept_lower) ==
    \E i \in DOMAIN patterns_lower[statement_type] :
        Contains(patterns_lower[statement_type][i], concept_lower)

\* mutant: a concept is stored under every statement type with a matching
\* pattern (the break out of the loop over the types is missing)
XbrlStatementsNoBreak(concept) ==
    LET concept_lower == Lower(concept)
    IN  IF \E k \in {"increase", "decrease"} : Contains(k, concept_lower)
        THEN <<"cash_flow">>
        ELSE LET hits == SelectSeq(StatementTypes,
                            LAMBDA st : MatchesPattern(st, concept_lower))
             IN  IF hits = <<>> THEN <<"other">> ELSE hits

\* the body of the loop over facts.items(): the dicts of categorized_data
\* the concept is stored in
XbrlStatements(concept) ==
    LET concept_lower == Lower(concept)
    IN  IF \E k \in {"increase", "decrease"} : Contains(k, concept_lower)
        THEN <<"cash_flow">>
        ELSE LET hits == SelectSeq(StatementTypes,
                            LAMBDA st : MatchesPattern(st, concept_lower))
             IN  IF hits = <<>> THEN <<"other">> ELSE <<hits[1]>>

RECURSIVE XbrlStored(_)
\* for every concept of facts, in order, the dicts it is stored in
XbrlStored(names) ==
    IF names = <<>> THEN <<>>
    ELSE <<XbrlStatements(Head(names))>> \o XbrlStored(Tail(names))

RECURSIVE XbrlItems(_, _, _)
\* categorized_data[statement_type]
XbrlItems(statement_type, names, stored) ==
    IF names = <<>> THEN <<>>
    ELSE (IF InList(statement_type, Head(stored))
          THEN <<[k |-> Head(names), v |-> JS("fact")]>> ELSE <<>>)
         \o XbrlItems(statement_type, Tail(names), Tail(stored))

\* names: the keys of the facts dict of the parsed instance, in order
categorize_financial_data(names) ==
    LET stored == XbrlStored(names)
    IN  [income_statement |-> XbrlItems("income_statement", names, stored),
         balance_sheet    |-> XbrlItems("balance_sheet", names, stored),
         cash_flow        |-> XbrlItems("cash_flow", names, stored),
         other            |-> XbrlItems("other", names, stored)]

XbrlKeys ==
    {"financial_statements", "contexts", "schema", "labels", "xbrl_files",
     "parsing_method", "total_facts"}

\* instance_data = {}
InstanceEmpty == [parsed |-> FALSE, facts |-> <<>>]

\* XBRLParser.get_financial_statements_xbrl, lines 294-319: the result once
\* the documents are parsed
XbrlResult(inst) ==
    IF inst.parsed                       \* instance_data and 'facts' in instance_data
    THEN Bundle(XbrlKeys, EmptyStatements, categorize_financial_data(inst.facts))
    ELSE EmptyDict

\* mutant: Tier 1 never returns
Tier1ReturnsNever(xd) == FALSE

\* get_financial_statements line 111:
\* xbrl_data and xbrl_data.get('financial_statements')
Tier1Returns(xd) ==
    /\ xd.keys # {}
    /\ "financial_statements" \in xd.keys
    /\ DOMAIN xd.financial_statements # {}

\* mutant: the loop has no break, the last matching filing is the target
TargetAccessionLast(filings, rtype, per) ==
    IF filings.t # "list" THEN ""
    ELSE LET hits == {i \in DOMAIN filings.elems :
                        /\ Contains(Lower(rtype), Lower(filings.elems[i].form))
                        /\ Contains(per, filings.elems[i].filingDate)}
         IN  IF hits = {} THEN ""
             ELSE filings.elems[CHOOSE i \in hits : \A j \in hits : i >= j].accessionNumber

\* SECService.get_financial_statements_xbrl, lines 169-188: target_accession,
\* "" when there is none. Iterating a dict yields its keys, which are no dicts.
TargetAccession(filings, rtype, per) ==
    IF filings.t # "list" THEN ""
    ELSE LET hits == {i \in DOMAIN filings.elems :
                        /\ Contains(Lower(rtype), Lower(filings.elems[i].form))
                        /\ Contains(per, filings.elems[i].filingDate)}
         IN  IF hits = {} THEN ""
             ELSE filings.elems[CHOOSE i \in hits : \A j \in hits : i <= j].accessionNumber

---------------------------------------------------------------------------
(* Tier 2: SECService.get_reported_concepts_from_filing *)

\* lines 543-563: the accession number of target_filing; "" when there is no
\* target filing or it has no accession number; "raise" when a statement raises
TargetFiling(submissions_data, rtype, per) ==
    IF submissions_data.t # "dict" THEN "raise"           \* submissions_data.get
    ELSE LET filings == Get(submissions_data, "filings", JDict(<<>>))
         IN  IF filings.t # "dict" THEN "raise"
             ELSE IF ~HasKey(filings, "recent") THEN ""
             ELSE LET recent == Item(filings, "recent")
                      hits == {i \in DOMAIN recent.form :
                                 /\ recent.form[i] = rtype
                                 /\ i <= Len(recent.filingDate)
                                 /\ recent.filingDate[i] # ""
                                 /\ Contains(per, recent.filingDate[i])}
                  IN  IF hits = {} THEN ""
                      ELSE LET i == CHOOSE h \in hits : \A j \in hits : h <= j
                           IN  IF i <= Len(recent.accessionNumber)
                               THEN recent.accessionNumber[i] ELSE ""

\* lines 582-590 for one concept: "keep", "skip" or "raise"
HasValues(concept_data) ==
    CASE concept_data.t = "dict" ->
            IF ~HasKey(concept_data, "units") THEN "skip"
            ELSE LET units == Item(concept_data, "units")
                 IN  IF units.t # "dict" THEN "raise"     \* units.items()
                     ELSE IF \E i \in DOMAIN units.items : Truthy(units.items[i].v)
                          THEN "keep" ELSE "skip"
      [] concept_data.t = "str" ->
            IF Contains("units", concept_data.s) THEN "raise" ELSE "skip"
      [] concept_data.t = "list" -> "skip"
      [] OTHER -> "raise"

RECURSIVE KeepReported(_, _)
KeepReported(items, reported) ==
    IF items = <<>> THEN reported
    ELSE KeepReported(Tail(items),
            IF HasValues(Head(items).v) = "keep"
            THEN DictSet(reported, Head(items).k, Head(items).v)
            ELSE reported)

\* lines 573-590: reported_concepts, or raised when a statement raises
ReportedInFiling(filing_data) ==
    LET none   == [raised |-> FALSE, reported |-> <<>>]
        raised == [raised |-> TRUE, reported |-> <<>>]
    IN  IF filing_data.t \notin {"dict", "list"} THEN raised   \* 'facts' in filing_data
        ELSE IF filing_data.t = "list" \/ ~HasKey(filing_data, "facts") THEN none
        ELSE LET f == Item(filing_data, "facts")
             IN  IF f.t # "dict" THEN raised                   \* facts.items()
                 ELSE LET items == ConceptItems(f.items)
                      IN  IF \E i \in DOMAIN items : HasValues(items[i].v) = "raise"
                          THEN raised
                          ELSE [raised |-> FALSE, reported |-> KeepReported(items, <<>>)]

\* mutant: Tier 2 returns whatever the filing lookup gave
Tier2ReturnsAlways(reported_concepts) == TRUE

\* get_financial_statements line 119:
\* filing_data and filing_data.get('reported_concepts')
Tier2Returns(reported_concepts) == reported_concepts # <<>>

\* get_financial_statements lines 119-123: the data handed to
\* _extract_financial_data
Tier2Data(reported_concepts) ==
    JDict(<<[k |-> "facts", v |-> JDict(reported_concepts)]>>)

---------------------------------------------------------------------------
(* Tier 3: the 'filings' branch of _extract_financial_data (lines 341-393) *)

\* matching_filings[0]['accession_number']: "none" when no filing of the
\* report type is listed, "" when the first one has no accession number,
\* "raise" when a statement raises
LatestFiling(d, rtype) ==
    LET filings == Item(d, "filings")
    IN  IF filings.t # "dict" THEN "raise"                 \* filings.get
        ELSE IF ~HasKey(filings, "recent") THEN "none"
        ELSE LET recent == Item(filings, "recent")
                 hits == {i \in DOMAIN recent.form : recent.form[i] = rtype}
             IN  IF hits = {} THEN "none"
                 ELSE LET i == CHOOSE h \in hits : \A j \in hits : h <= j
                      IN  IF i <= Len(recent.accessionNumber)
                          THEN recent.accessionNumber[i] ELSE ""

---------------------------------------------------------------------------
(* What the SEC endpoints answer in the resolve runs *)

\* a fetch: "ok" is status 200 with a body that parses, "malformed" status
\* 200 with a body that does not, "not_found" status 404, "status_error" any
\* other status, "transport_error" an exception of session.get
Outcomes == {"ok", "malformed", "not_found", "status_error", "transport_error"}

Endpoints == <<"companyfacts", "submissions", "company_concept">>

\* an entry of the call log: the tier that fetched, what it fetched, and
\* whether the fetch gave a parsed body
Call(tier, url, outcome) == [tier |-> tier, url |-> url, ok |-> outcome = "ok"]

\* time.sleep(0.1) of get_company_filings
Sleep == [tier |-> 1, url |-> "sleep", ok |-> TRUE]

ResolvePeriods == {"2023", "2021"}

Filing(form, filingDate, accessionNumber) ==
    [form |-> form, filingDate |-> filingDate, accessionNumber |-> accessionNumber]

\* bodies of the filing-list lookup of Tier 1
FilingsBodies ==
    { JList(<<Filing("10-Q", "2023-08-04", "0000320193-23-000077"),
              Filing("10-K405", "2023-11-03", "0000320193-23-000106"),
              Filing("10-K", "2023-11-03", "0000320193-23-000107")>>),
      JList(<<>>),
      JDict(<<[k |-> "cik", v |-> JN(320193)], [k |-> "facts", v |-> JDict(<<>>)]>>) }

\* the documents a filing index names
IndexContents ==
    { {}, {"instance"}, {"schema", "label"}, {"instance", "schema", "label"} }

\* the names of the elements of the instance namespace that have text, in
\* document order (a later element of the same name replaces the earlier one)
InstanceDocs ==
    { <<>>,
      <<"identifier", "instant", "measure">>,
      <<"Revenues", "Assets", "PaymentsOfDividends">>,
      <<"CashAndCashEquivalentsAtCarryingValue", "IncreaseDecreaseInInventories",
        "Liabilities">> }

Recent(form, filingDate, accessionNumber) ==
    [t |-> "recent", form |-> form, filingDate |-> filingDate,
     accessionNumber |-> accessionNumber]

SubmissionsDoc(recent) ==
    JDict(<<[k |-> "cik", v |-> JS("320193")],
            [k |-> "filings", v |-> JDict(<<[k |-> "recent", v |-> recent]>>)]>>)

SubmissionsBodies ==
    { SubmissionsDoc(Recent(<<"10-Q", "10-K", "10-K">>,
                            <<"2023-08-04", "2023-11-03", "2022-10-28">>,
                            <<"0000320193-23-000077", "0000320193-23-000106",
                              "0000320193-22-000108">>)),
      SubmissionsDoc(Recent(<<"10-K">>, <<"2023-11-03">>, <<>>)),
      SubmissionsDoc(Recent(<<"8-K">>, <<"2023-05-04">>, <<"0000320193-23-000052">>)),
      JDict(<<[k |-> "filings", v |-> JList(<<>>)]>>),
      JList(<<>>) }

AnnualFact(end, val) == JFact(JS("10-K"), JS(end), JS("FY"), val)

USD(values) == <<[k |-> "USD", v |-> JList(values)]>>

\* bodies of the facts endpoints (a filing's facts, the company facts)
FactsBodies ==
    { FactsDoc("us-gaap",
        <<[k |-> "Revenues",
           v |-> Concept("Revenues", USD(<<AnnualFact("2023-09-30", JN(100))>>))],
          [k |-> "IncreaseDecreaseInOtherCurrentAssets",
           v |-> Concept("Increase (Decrease) in Other Current Assets",
                         USD(<<AnnualFact("2023-09-30", JN(-7))>>))],
          [k |-> "Assets",
           v |-> Concept("Assets", USD(<<AnnualFact("2022-09-24", JN(300))>>))]>>),
      FactsDoc("dei",
        <<[k |-> "EntityCommonStockSharesOutstanding",
           v |-> Concept("Entity Common Stock, Shares Outstanding",
                         <<[k |-> "shares", v |-> JList(<<>>)]>>)]>>),
      JDict(<<[k |-> "cik", v |-> JN(320193)]>>),
      JList(<<>>) }

\* bodies of the company-concept endpoint
ConceptBodies ==
    { JDict(<<[k |-> "tag", v |-> JS("Revenues")],
              [k |-> "units", v |-> JDict(USD(<<AnnualFact("2023-09-30", JN(100))>>))]>>),
      JList(<<>>) }

\* what an endpoint of the Tier 3 loop answers with
BodiesOf(url) ==
    CASE url = "companyfacts" -> FactsBodies
      [] url = "submissions"  -> SubmissionsBodies
      [] OTHER                -> ConceptBodies

---------------------------------------------------------------------------
(* Resolve runs: SECService.get_financial_statements, one fetch a step *)

InitResolve ==
    /\ phase = "t1_filings"
    /\ report_type = "10-K"
    /\ period \in ResolvePeriods
    /\ facts = <<>>
    /\ categorized = NoResult
    /\ data = NoResult
    /\ financial_data = NoResult
    /\ endpoint = 1
    /\ calls = <<>>
    /\ accession = ""
    /\ xbrl_files = {}
    /\ instance_data = NoResult
    /\ xbrl_data = NoResult
    /\ returned_by = 0
    /\ result = NoResult
    /\ RatiosIdle
    /\ CallerIdle

\* lines 109-117: Tier 1 gave xd
Tier1Yields(xd) ==
    /\ xbrl_data' = xd
    /\ endpoint' = 0
    /\ IF Tier1Returns(xd)
       THEN /\ phase' = "done"
            /\ result' = xd
            /\ returned_by' = 1
       ELSE /\ phase' = "t2_submissions"
            /\ UNCHANGED <<result, returned_by>>

\* get_company_filings (lines 78-96) one endpoint a step, and the choice of
\* the filing (lines 169-188) once an endpoint answers; data holds the
\* filings that line 167 binds, as long as Tier 1 is the last tier tried
GetCompanyFilings ==
    /\ phase = "t1_filings"
    /\ \E o \in Outcomes :
          /\ calls' = calls \o
                (IF o \in {"ok", "malformed"}
                 THEN <<Call(1, Endpoints[endpoint], o), Sleep>>
                 ELSE <<Call(1, Endpoints[endpoint], o)>>)
          /\ IF o = "ok"
             THEN \E filings \in FilingsBodies :
                    LET target_accession == TargetAccession(filings, report_type, period)
                    IN  /\ data' = filings
                        /\ IF target_accession = ""
                           THEN Tier1Yields(EmptyDict) /\ UNCHANGED accession
                           ELSE /\ phase' = "t1_index"
                                /\ accession' = target_accession
                                /\ endpoint' = 0
                                /\ UNCHANGED <<xbrl_data, result, returned_by>>
             ELSE /\ UNCHANGED data
                  /\ IF endpoint < Len(Endpoints)
                     THEN /\ endpoint' = endpoint + 1
                          /\ UNCHANGED <<phase, accession, xbrl_data, result, returned_by>>
                     ELSE Tier1Yields(EmptyDict) /\ UNCHANGED accession
    /\ UNCHANGED <<requestVars, callerVars, ratioVars, classifyVars, financial_data,
                   xbrl_files, instance_data>>

Documents == <<"instance", "schema", "label">>

\* XBRLParser.get_financial_statements_xbrl lines 281-292: the document parsed
\* after the n-th, "result" when none is left
NextDocument(files, n) ==
    LET left == {i \in DOMAIN Documents : i > n /\ Documents[i] \in files}
    IN  IF left = {} THEN "result"
        ELSE Documents[CHOOSE i \in left : \A j \in left : i <= j]

\* on to the next document, or to the result of Tier 1 after the last
AfterDocument(files, n, inst) ==
    IF NextDocument(files, n) = "result"
    THEN Tier1Yields(XbrlResult(inst))
    ELSE /\ phase' = "t1_" \o NextDocument(files, n)
         /\ UNCHANGED <<endpoint, xbrl_data, result, returned_by>>

\* XBRLParser.get_xbrl_files
GetXbrlFiles ==
    /\ phase = "t1_index"
    /\ \E o \in Outcomes :
          /\ calls' = Append(calls, Call(1, "index", o))
          /\ \E files \in (IF o = "ok" THEN IndexContents ELSE {{}}) :
                /\ xbrl_files' = files
                /\ IF files = {}
                   THEN Tier1Yields(EmptyDict) /\ UNCHANGED instance_data
                   ELSE /\ instance_data' = InstanceEmpty
                        /\ AfterDocument(files, 0, InstanceEmpty)
    /\ UNCHANGED <<requestVars, callerVars, ratioVars, classifyVars, extractVars, accession>>

\* XBRLParser.parse_xbrl_instance. The facts are looked up with
\* findall('.//xbrl:*') and no prefix map (line 100): xml.etree.ElementTree
\* raises on the unknown prefix, and the except clause then returns {} for
\* every document (raised). A lookup that resolves the prefix gives the
\* elements of the instance namespace.
parse_xbrl_instance(outcome, raised, names) ==
    IF outcome = "ok" /\ ~raised
    THEN [parsed |-> TRUE, facts |-> names]
    ELSE InstanceEmpty

ParseInstance ==
    /\ phase = "t1_instance"
    /\ \E o \in Outcomes, raised \in BOOLEAN, names \in InstanceDocs :
          LET inst == parse_xbrl_instance(o, raised, names)
          IN  /\ calls' = Append(calls, Call(1, "instance", o))
              /\ instance_data' = inst
              /\ AfterDocument(xbrl_files, 1, inst)
    /\ UNCHANGED <<requestVars, callerVars, ratioVars, classifyVars, extractVars, accession, xbrl_files>>

\* XBRLParser.parse_xbrl_schema: schema_data is carried in the result unread
ParseSchema ==
    /\ phase = "t1_schema"
    /\ \E o \in Outcomes : calls' = Append(calls, Call(1, "schema", o))
    /\ AfterDocument(xbrl_files, 2, instance_data)
    /\ UNCHANGED <<requestVars, callerVars, ratioVars, classifyVars, extractVars, accession, xbrl_files,
                   instance_data>>

\* XBRLParser.parse_xbrl_labels: labels are carried in the result unread
ParseLabels ==
    /\ phase = "t1_label"
    /\ \E o \in Outcomes : calls' = Append(calls, Call(1, "label", o))
    /\ AfterDocument(xbrl_files, 3, instance_data)
    /\ UNCHANGED <<requestVars, callerVars, ratioVars, classifyVars, extractVars, accession, xbrl_files,
                   instance_data>>

\* lines 117-127: Tier 2 gave reported_concepts ({} of the lookup is none)
Tier2Yields(reported_concepts) ==
    IF Tier2Returns(reported_concepts)
    THEN /\ phase' = "done"
         /\ endpoint' = 0
         /\ result' = extract_financial_data(Tier2Data(reported_concepts),
                                             report_type, period)
         /\ returned_by' = 2
    ELSE /\ phase' = "t3_endpoint"
         /\ endpoint' = 1
         /\ UNCHANGED <<result, returned_by>>

\* get_reported_concepts_from_filing lines 538-563: the submissions lookup
GetSubmissions ==
    /\ phase = "t2_submissions"
    /\ \E o \in Outcomes :
          /\ calls' = Append(calls, Call(2, "submissions", o))
          /\ IF o = "ok"
             THEN \E submissions_data \in SubmissionsBodies :
                    LET target == TargetFiling(submissions_data, report_type, period)
                    IN  IF target \in {"raise", ""}
                        THEN Tier2Yields(<<>>) /\ UNCHANGED accession
                        ELSE /\ phase' = "t2_facts"
                             /\ accession' = target
                             /\ UNCHANGED <<endpoint, result, returned_by>>
             ELSE Tier2Yields(<<>>) /\ UNCHANGED accession
    /\ data' = NoResult
    /\ UNCHANGED <<requestVars, callerVars, ratioVars, classifyVars, financial_data,
                   xbrl_files, instance_data, xbrl_data>>

\* get_reported_concepts_from_filing lines 565-603: the facts of the filing
GetFilingFacts ==
    /\ phase = "t2_facts"
    /\ \E o \in Outcomes :
          /\ calls' = Append(calls, Call(2, "filing_facts", o))
          /\ IF o = "ok"
             THEN \E filing_data \in FactsBodies :
                    Tier2Yields(ReportedInFiling(filing_data).reported)
             ELSE Tier2Yields(<<>>)
    /\ UNCHANGED <<requestVars, callerVars, ratioVars, classifyVars, extractVars, accession, xbrl_files,
                   instance_data, xbrl_data>>

\* get_financial_statements returns
Return(tier, bundle) ==
    /\ phase' = "done"
    /\ endpoint' = 0
    /\ result' = bundle
    /\ returned_by' = tier

\* lines 135-157: one endpoint of the Tier 3 loop, and _extract_financial_data
\* on its body up to the fetch of the 'filings' branch
FetchEndpoint ==
    /\ phase = "t3_endpoint"
    /\ \E o \in Outcomes :
          /\ calls' = Append(calls, Call(3, Endpoints[endpoint], o))
          /\ \E body \in (IF o = "ok" THEN BodiesOf(Endpoints[endpoint])
                                      ELSE {JList(<<>>)}) :
                IF o = "ok" /\ body.t = "dict"                \* data.keys()
                THEN IF HasKey(body, "facts") \/ ~HasKey(body, "filings")
                     THEN Return(3, extract_financial_data(body, report_type, period))
                          /\ UNCHANGED accession
                     ELSE LET latest == LatestFiling(body, report_type)
                          IN  CASE latest = "raise" ->
                                    Return(3, Bundle(BaseKeys \cup {"error"},
                                                     EmptyStatements, <<>>))
                                    /\ UNCHANGED accession
                                [] latest = "none" ->
                                    Return(3, Bundle(BaseKeys \cup {"filings"},
                                                     EmptyStatements, <<>>))
                                    /\ UNCHANGED accession
                                [] latest = "" ->
                                    Return(3, Bundle(BaseKeys \cup {"filings", "matching_filing"},
                                                     EmptyStatements, <<>>))
                                    /\ UNCHANGED accession
                                [] OTHER ->
                                    /\ phase' = "t3_filing"
                                    /\ accession' = latest
                                    /\ UNCHANGED <<endpoint, result, returned_by>>
                ELSE IF endpoint < Len(Endpoints)
                     THEN /\ endpoint' = endpoint + 1
                          /\ UNCHANGED <<phase, accession, result, returned_by>>
                     ELSE Return(0, EmptyDict) /\ UNCHANGED accession
    /\ UNCHANGED <<requestVars, callerVars, ratioVars, classifyVars, extractVars, xbrl_files,
                   instance_data, xbrl_data>>

\* _get_filing_financial_data and lines 380-390 around its call: the facts of
\* the latest filing, or no more than the filing found
GetFilingFinancialData ==
    /\ phase = "t3_filing"
    /\ \E o \in Outcomes :
          /\ calls' = Append(calls, Call(3, "filing_facts", o))
          /\ \E filing_data \in (IF o = "ok" THEN FactsBodies ELSE {JList(<<>>)}) :
                IF o = "ok" /\ filing_data.t = "dict"         \* filing_data.keys()
                THEN Return(3, extract_financial_data(filing_data, report_type, period))
                ELSE Return(3, Bundle({"matching_filing"}, EmptyStatements, <<>>))
    /\ UNCHANGED <<requestVars, callerVars, ratioVars, classifyVars, extractVars, accession, xbrl_files,
                   instance_data, xbrl_data>>

NextResolve ==
    \/ GetCompanyFilings
    \/ GetXbrlFiles
    \/ ParseInstance
    \/ ParseSchema
    \/ ParseLabels
    \/ GetSubmissions
    \/ GetFilingFacts
    \/ FetchEndpoint
    \/ GetFilingFinancialData

SpecResolve == InitResolve /\ [][NextResolve]_vars

---------------------------------------------------------------------------
(* Properties of the resolve runs (SpecResolve) *)

\* the three statement buckets of a returned dict: Tier 1 returns them under
\* 'financial_statements', Tiers 2 and 3 as top-level keys
BucketsOf(bundle) ==
    IF "financial_statements" \in bundle.keys
    THEN [statement_type \in Range(StatementTypes) |->
            bundle.financial_statements[statement_type]]
    ELSE [income_statement |-> bundle.income_statement,
          balance_sheet    |-> bundle.balance_sheet,
          cash_flow        |-> bundle.cash_flow]

Populated(bundle) ==
    \E statement_type \in Range(StatementTypes) :
        BucketsOf(bundle)[statement_type] # <<>>

ConceptsIn(bundle, statement_type) ==
    {BucketsOf(bundle)[statement_type][i].k :
        i \in DOMAIN BucketsOf(bundle)[statement_type]}

Fetches == {i \in DOMAIN calls : calls[i].url # "sleep"}

Attempted(tier) == \E i \in Fetches : calls[i].tier = tier

Tier1NonEmpty == xbrl_data # NoResult /\ xbrl_data.keys # {}

C3_Tier2ReturnsOnlySurvivors ==
    /\ returned_by = 2 => Populated(result)
    /\ (phase = "done" /\ Attempted(2) /\ ~Populated(result)) => Attempted(3)

AllFetchesFailed == \A i \in Fetches : ~calls[i].ok

\* what holds of a run when it has returned
Degraded ==
    /\ result # NoResult
    /\ \A tier \in 1..3 :
          returned_by = tier => \E i \in Fetches : calls[i].tier = tier /\ calls[i].ok
    /\ returned_by # 1 => Attempted(2)
    /\ returned_by \notin {1, 2} => Attempted(3)
    /\ AllFetchesFailed =>
          /\ result = EmptyDict
          /\ \A e \in DOMAIN Endpoints :
                \E i \in Fetches : calls[i].tier = 3 /\ calls[i].url = Endpoints[e]

\* the step of the phase has what it reads: the endpoint of a loop, the
\* document the index named, the accession number of the filing found
CanStep ==
    CASE phase \in {"t1_filings", "t3_endpoint"} -> endpoint \in DOMAIN Endpoints
      [] phase \in {"t1_instance", "t1_schema", "t1_label"} ->
            \E i \in DOMAIN Documents :
                phase = "t1_" \o Documents[i] /\ Documents[i] \in xbrl_files
      [] phase \in {"t1_index", "t2_facts", "t3_filing"} -> accession # ""
      [] phase = "t2_submissions" -> TRUE
      [] OTHER -> FALSE

\* C4: whatever every fetch answers, a resolve run returns: before it has
\* returned it always has a next step, it makes no more than twelve
\* fetches, a tier whose fetches fail returns nothing and the next tier is
\* attempted, and when no fetch of any tier succeeds the result is the empty
\* dict.
C4_EveryFailureDegrades ==
    /\ phase = "done" => Degraded
    /\ phase # "done" => CanStep
    /\ Cardinality(Fetches) <= 12

\* every fetch of every tier failed and the run returned the empty dict
C4_Witness ==
    /\ phase = "done"
    /\ AllFetchesFailed
    /\ Attempted(1) /\ Attempted(2) /\ Attempted(3)
    /\ result = EmptyDict

\* C9: in the dict a resolve run returns, no concept is in two of the
\* buckets income_statement, balance_sheet, cash_flow.
C9_OneBucketPerConcept ==
    phase = "done" =>
        \A s1, s2 \in Range(StatementTypes) :
            s1 # s2 => ConceptsIn(result, s1) \cap ConceptsIn(result, s2) = {}

\* Tier 3 returned a dict with concepts in two buckets, one of them a label
\* with "increase" and a scoring keyword
C9_Witness ==
    /\ phase = "done"
    /\ returned_by = 3
    /\ "us-gaap.IncreaseDecreaseInOtherCurrentAssets" \in ConceptsIn(result, "cash_flow")
    /\ "us-gaap.Revenues" \in ConceptsIn(result, "income_statement")

\* a facts document without the concepts that report no value
RestrictedToReported(filing_data) ==
    JDict([i \in DOMAIN filing_data.items |->
        IF filing_data.items[i].k # "facts" THEN filing_data.items[i]
        ELSE [k |-> "facts",
              v |-> JDict([t \in DOMAIN filing_data.items[i].v.items |->
                      [k |-> filing_data.items[i].v.items[t].k,
                       v |-> JDict(SelectSeq(filing_data.items[i].v.items[t].v.items,
                                     LAMBDA c : HasValues(c.v) = "keep"))]])]])

\* C20: for every facts document of a filing, the statements that Tier 2
\* returns on it are those that the Tier 3 extraction (period filter, then
\* classification) gives on the document restricted to the concepts that
\* report a value: the same concept keys with the same entries.
C20_Tier2AsTier3OnReported ==
    (phase = "done" /\ returned_by = 2) =>
        \A filing_data \in FactsBodies :
            (/\ ~ReportedInFiling(filing_data).raised
             /\ Tier2Returns(ReportedInFiling(filing_data).reported)
             /\ result = extract_financial_data(
                            Tier2Data(ReportedInFiling(filing_data).reported),
                            report_type, period)) =>
                LET tier3 == extract_financial_data(RestrictedToReported(filing_data),
                                                    report_type, period)
                IN  \A statement_type \in Range(StatementTypes) :
                        result[statement_type] = tier3[statement_type]

\* C16: a dict that get_financial_statements returns and that is not {} has
\* income_statement, balance_sheet and cash_flow among its keys, whichever
\* tier or endpoint it comes from, and every classified concept is in one of
\* these three top-level dicts.
C16_BucketsAtTopLevel ==
    (phase = "done" /\ result.keys # {}) =>
        /\ Range(StatementTypes) \subseteq result.keys
        /\ \A statement_type \in Range(StatementTypes) :
              ConceptsIn(result, statement_type)
                  = {result[statement_type][i].k : i \in DOMAIN result[statement_type]}

\* the filing matches the request: its form contains report_type whatever
\* the case, its filing date contains the period
FilingMatches(filing, rtype, per) ==
    /\ \E n \in 0..Len(filing.form) :
          n + Len(rtype) <= Len(filing.form)
          /\ Lower(SubSeq(filing.form, n + 1, n + Len(rtype))) = Lower(rtype)
    /\ \E n \in 0..Len(filing.filingDate) :
          n + Len(per) <= Len(filing.filingDate)
          /\ SubSeq(filing.filingDate, n + 1, n + Len(per)) = per

XbrlDocuments == {"index", "instance", "schema", "label"}

\* C22: in a Tier 1 result every fact of the instance is in the bucket that
\* the keyword-scoring classifier of Tiers 2 and 3 assigns to its name, and in
\* none of the three when the classifier drops it.
C22_Tier1ClassifiedAsTiers23 ==
    (xbrl_data # NoResult /\ "financial_statements" \in xbrl_data.keys) =>
        \A i \in DOMAIN instance_data.facts :
            \A statement_type \in Range(StatementTypes) :
                (instance_data.facts[i] \in ConceptsIn(xbrl_data, statement_type))
                    <=> InList(statement_type,
                               AssignedStatements(Description(
                                   [key |-> instance_data.facts[i], label |-> ""])))

\* C21: once the filing list has been obtained, Tier 1 works on the
\* accession number of the first filing of the list that matches the request
\* and fetches that filing's XBRL index; when no filing matches (or what was
\* obtained is no list) Tier 1 gives {} and no XBRL document is fetched.
C21_FirstMatchingFilingParsed ==
    data # NoResult =>
        LET matching == IF data.t = "list"
                        THEN {i \in DOMAIN data.elems :
                                FilingMatches(data.elems[i], report_type, period)}
                        ELSE {}
        IN  IF matching # {}
            THEN /\ \E i \in matching :
                      /\ \A j \in matching : i <= j
                      /\ accession = data.elems[i].accessionNumber
                 /\ \/ phase = "t1_index"
                    \/ \E c \in DOMAIN calls : calls[c].url = "index"
            ELSE /\ phase = "t2_submissions"
                 /\ xbrl_data = EmptyDict
                 /\ \A c \in DOMAIN calls : calls[c].url \notin XbrlDocuments

\* the list has a 10-K405 before the 10-K of the same date: the index and
\* the instance document of the 10-K405 were fetched
C21_Witness ==
    /\ data # NoResult
    /\ data.t = "list"
    /\ Len(data.elems) = 3
    /\ accession = data.elems[2].accessionNumber
    /\ FilingMatches(data.elems[3], report_type, period)
    /\ \E c \in DOMAIN calls : calls[c].url = "instance"

\* the document of the filing was fetched and is well-formed
Served(document) ==
    /\ document \in xbrl_files
    /\ \E c \in DOMAIN calls : calls[c].url = document /\ calls[c].ok

\* C23: once Tier 1 is through with the documents of a filing, the result
\* carries the facts of the instance document whenever that document was
\* served, whatever became of the schema and label documents; when the
\* instance document is absent, not served or not well-formed the result is
\* {} and the run goes on to Tier 2.
C23_OnlyInstanceFailureEmpties ==
    (xbrl_data # NoResult /\ xbrl_files # {}) =>
        IF Served("instance")
        THEN /\ "financial_statements" \in xbrl_data.keys
             /\ instance_data.parsed
             /\ \A i \in DOMAIN instance_data.facts :
                   \E statement_type \in DOMAIN xbrl_data.financial_statements :
                       \E j \in DOMAIN xbrl_data.financial_statements[statement_type] :
                           xbrl_data.financial_statements[statement_type][j].k
                               = instance_data.facts[i]
        ELSE /\ xbrl_data = EmptyDict
             /\ phase = "t2_submissions" \/ Attempted(2)

\* the host a fetch of the call log goes to
Host(url) == IF url \in XbrlDocuments THEN "www.sec.gov" ELSE "data.sec.gov"

\* C25: in the call log of a resolve run no two requests to the same host
\* follow each other without a delay between them.
C25_DelayBetweenRequests ==
    \A i \in DOMAIN calls :
        (/\ i < Len(calls)
         /\ calls[i].url # "sleep"
         /\ calls[i + 1].url # "sleep") => Host(calls[i].url) # Host(calls[i + 1].url)

---------------------------------------------------------------------------
(* XBRLParser.parse_xbrl_instance: the facts of one document *)

MaxElements == 2

Digits == "0123456789"

\* the characters of s, in order
Chars(s) == [i \in 1..Len(s) |-> SubSeq(s, i, i)]

\* str.strip() is not '' (the texts have blanks as their only white space)
StripNotEmpty(value) == \E i \in 1..Len(value) : Chars(value)[i] # " "

\* value.replace('.', '').replace('-', '').isdigit()
IsDigitWithoutDotDash(value) ==
    LET kept == SelectSeq(Chars(value), LAMBDA c : c \notin {".", "-"})
    IN  /\ kept # <<>>
        /\ \A i \in DOMAIN kept : Contains(kept[i], Digits)

\* float(value) does not raise, for a value of digits, '.' and '-' with a
\* digit: at most one '.', and a '-' only as the first character
FloatParses(value) ==
    /\ Len(SelectSeq(Chars(value), LAMBDA c : c = ".")) <= 1
    /\ \A i \in 2..Len(value) : Chars(value)[i] # "-"

\* line 115: the 'value' of the fact ("raise": float() raises ValueError;
\* a number is kept with the text it was parsed from)
fact_value(value) ==
    IF IsDigitWithoutDotDash(value)
    THEN IF FloatParses(value) THEN [t |-> "num", of |-> value] ELSE [t |-> "raise"]
    ELSE [t |-> "str", s |-> value]

\* line 113: value is not None and value.strip()
Included(element) == "text" \in DOMAIN element /\ StripNotEmpty(element.text)

RECURSIVE ParsedFacts(_, _)
\* the loop of lines 100-121 over the elements of the instance namespace:
\* the facts dict, unless a statement of the loop raises
ParsedFacts(elements, found) ==
    IF elements = <<>> THEN [raised |-> FALSE, facts |-> found]
    ELSE IF ~Included(Head(elements)) THEN ParsedFacts(Tail(elements), found)
    ELSE IF fact_value(Head(elements).text).t = "raise"
         THEN [raised |-> TRUE, facts |-> <<>>]
    ELSE ParsedFacts(Tail(elements),
                     DictSet(found, Head(elements).name,
                             [value     |-> fact_value(Head(elements).text),
                              raw_value |-> Head(elements).text]))

\* the texts of the elements of the sample documents
ElementTexts == {"", " ", "1000", "-5.5", " 7", "N/A", "1.2.3", "5-1"}

\* the elements of the instance namespace in a document, without text or with
Elements ==
    {[name |-> n] : n \in {"Revenues", "Assets"}}
        \cup {[name |-> n, text |-> t] : n \in {"Revenues", "Assets"}, t \in ElementTexts}

InitInstance ==
    /\ phase = "instance_input"
    /\ data = <<>>
    /\ report_type = ""
    /\ period = ""
    /\ facts = <<>>
    /\ categorized = NoResult
    /\ financial_data = NoResult
    /\ ResolveIdle
    /\ RatiosIdle
    /\ CallerIdle

\* one more element in the document
AddElement ==
    /\ phase = "instance_input"
    /\ Len(data) < MaxElements
    /\ \E element \in Elements : data' = Append(data, element)
    /\ UNCHANGED <<phase, requestVars, classifyVars, financial_data, resolveVars,
                   ratioVars, callerVars>>

\* parse_xbrl_instance on the served document; the lookup of line 100 raises
\* or resolves as in parse_xbrl_instance(outcome, raised, names) above
ParseFacts ==
    /\ phase = "instance_input"
    /\ phase' = "instance_done"
    /\ \E raised \in BOOLEAN :
          instance_data' =
              IF raised \/ ParsedFacts(data, <<>>).raised
              THEN InstanceEmpty
              ELSE [parsed |-> TRUE, facts |-> ParsedFacts(data, <<>>).facts]
    /\ UNCHANGED <<requestVars, classifyVars, extractVars, endpoint, calls, accession,
                   xbrl_files, xbrl_data, returned_by, result, ratioVars, callerVars>>

NextInstance == AddElement \/ ParseFacts

SpecInstance == InitInstance /\ [][NextInstance]_vars

\* the last element of the name in the document
LastNamed(name) ==
    data[CHOOSE i \in DOMAIN data :
            /\ data[i].name = name /\ Included(data[i])
            /\ \A j \in DOMAIN data : (data[j].name = name /\ Included(data[j])) => j <= i]

\* the text is a number: digits with at most one '.', after at most one '-'
IsNumber(text) ==
    /\ \E i \in 1..Len(text) : Contains(SubSeq(text, i, i), Digits)
    /\ \A i \in 1..Len(text) :
          \/ Contains(SubSeq(text, i, i), Digits)
          \/ SubSeq(text, i, i) = "-" /\ i = 1
          \/ SubSeq(text, i, i) = "." /\ \A j \in 1..Len(text) : j # i => SubSeq(text, j, j) # "."

\* C24: the parse of a served instance document gives a fact for a name iff
\* an element of that name has a text that is not blank; the value of the
\* fact is a number when the text is a number and the raw text otherwise, and
\* no text makes the parse give up the facts of the document.
C24_FactIffTextAndNeverFails ==
    phase = "instance_done" =>
        /\ instance_data.parsed
        /\ \A name \in {"Revenues", "Assets"} :
              /\ (\E i \in DOMAIN instance_data.facts : instance_data.facts[i].k = name)
                    <=> (\E j \in DOMAIN data :
                            /\ data[j].name = name
                            /\ "text" \in DOMAIN data[j]
                            /\ \E n \in 1..Len(data[j].text) :
                                  SubSeq(data[j].text, n, n) # " ")
              /\ \A i \in DOMAIN instance_data.facts :
                    instance_data.facts[i].k = name =>
                        LET text == LastNamed(name).text
                        IN  /\ instance_data.facts[i].v.raw_value = text
                            /\ instance_data.facts[i].v.value
                                  = IF IsNumber(text) THEN [t |-> "num", of |-> text]
                                                      ELSE [t |-> "str", s |-> text]

---------------------------------------------------------------------------
(* FinancialRatioCalculator._calculate_ratios *)

\* the keys of the values dict, in the order _extract_key_values sets them
ValueKeys ==
    <<"revenue", "gross_profit", "operating_income", "net_income",
      "cost_of_goods_sold", "depreciation_amortization", "interest_expense",
      "shares_outstanding", "total_assets", "current_assets", "total_liabilities",
      "current_liabilities", "total_equity", "cash", "inventory",
      "accounts_receivable", "operating_cash_flow", "capex">>

\* n/d rounded to the nearest integer, a tie to the even one (d > 0).
\* Amounts are kept in hundredths: round(value, 2) and f"{value:.2f}" both
\* round the quotient to two decimals.
RoundHalfEven(n, d) ==
    LET f == n \div d
        r == n % d
    IN  IF 2 * r < d THEN f
        ELSE IF 2 * r > d THEN f + 1
        ELSE IF f % 2 = 0 THEN f ELSE f + 1

\* 100 * n / d in hundredths, for any sign of d
Hundredths(n, d) ==
    IF d > 0 THEN RoundHalfEven(100 * n, d) ELSE RoundHalfEven(-100 * n, -d)

\* mutant: the label does not select the format
format_ratio_value_plain(amount, label) ==
    [prefix |-> "", amount |-> amount, suffix |-> ""]

\* _format_ratio_value: the text is the amount to two decimals between a
\* prefix and a suffix that the label decides
format_ratio_value(amount, label) ==
    IF \E w \in {"Margin", "ROE", "ROA", "ROIC"} : Contains(w, label)
    THEN [prefix |-> "", amount |-> amount, suffix |-> "%"]
    ELSE IF \E w \in {"Ratio", "Turnover"} : Contains(w, label)
    THEN [prefix |-> "", amount |-> amount, suffix |-> "x"]
    ELSE IF \E w \in {"Per Share", "Book Value"} : Contains(w, label)
    THEN [prefix |-> "$", amount |-> amount, suffix |-> ""]
    ELSE IF Contains("Revenue", label)
    THEN [prefix |-> "$", amount |-> amount, suffix |-> "M"]
    ELSE [prefix |-> "", amount |-> amount, suffix |-> ""]

RECURSIVE Decimal(_)
\* the decimal digits of a natural number
Decimal(n) ==
    IF n < 10 THEN SubSeq("0123456789", n + 1, n + 1)
    ELSE Decimal(n \div 10) \o SubSeq("0123456789", (n % 10) + 1, (n % 10) + 1)

\* f"{value:.2f}" of an amount given in hundredths
TwoDecimals(amount) ==
    LET a == IF amount < 0 THEN -amount ELSE amount
    IN  (IF amount < 0 THEN "-" ELSE "")
        \o Decimal(a \div 100) \o "." \o Decimal((a % 100) \div 10) \o Decimal(a % 10)

\* the string _format_ratio_value returns
FormattedText(formatted) ==
    formatted.prefix \o TwoDecimals(formatted.amount) \o formatted.suffix

\* _create_ratio_result
create_ratio_result(amount, label) ==
    [value |-> amount, label |-> label, formatted |-> format_ratio_value(amount, label)]

\* mutant: the liquidity ratios are guarded against a zero denominator only
LiquidityGuardNonZero(v) == v.current_liabilities # 0

\* mutant: the liquidity ratios are computed unless the liabilities are negative
LiquidityGuardNonNegative(v) == v.current_liabilities >= 0

\* the guard of current_ratio, quick_ratio and cash_ratio (lines 224, 229, 234)
LiquidityGuard(v) == v.current_liabilities > 0

\* one if-block of _calculate_ratios: the key, whether the guard holds, the
\* quotient n/d the block computes, and the label; the division raises
\* ZeroDivisionError when the block is entered with d = 0
Block(key, guard, n, d, label) ==
    [key |-> key, guard |-> guard, raises |-> guard /\ d = 0,
     amount |-> IF guard /\ d # 0 THEN Hundredths(n, d) ELSE 0, label |-> label]

\* the if-blocks of _calculate_ratios in source order
Blocks(v) ==
    LET ebitda               == v.operating_income + v.depreciation_amortization
        total_capitalization == v.total_liabilities + v.total_equity
        invested_capital     == v.total_assets - v.current_liabilities
    IN  << Block("revenue", v.revenue > 0, v.revenue, 1, "Revenue"),
           Block("gross_profit_margin", v.revenue > 0 /\ v.gross_profit > 0,
                 100 * v.gross_profit, v.revenue, "Gross Profit Margin"),
           Block("operating_margin", v.revenue > 0 /\ v.operating_income # 0,
                 100 * v.operating_income, v.revenue, "Operating Margin"),
           Block("net_margin", v.revenue > 0 /\ v.net_income # 0,
                 100 * v.net_income, v.revenue, "Net Margin"),
           Block("ebitda_margin", v.revenue > 0 /\ ebitda # 0,
                 100 * ebitda, v.revenue, "EBITDA Margin"),
           Block("current_ratio", LiquidityGuard(v),
                 v.current_assets, v.current_liabilities, "Current Ratio"),
           Block("quick_ratio", LiquidityGuard(v),
                 v.current_assets - v.inventory, v.current_liabilities, "Quick Ratio"),
           Block("cash_ratio", LiquidityGuard(v),
                 v.cash, v.current_liabilities, "Cash Ratio"),
           Block("debt_to_equity", v.total_equity > 0,
                 v.total_liabilities, v.total_equity, "Debt to Equity"),
           Block("debt_to_total_capitalization", total_capitalization > 0,
                 v.total_liabilities, total_capitalization, "Debt to Total Capitalization"),
           Block("total_assets_to_equity", v.total_equity > 0,
                 v.total_assets, v.total_equity, "Total Assets/Equity"),
           Block("roe", v.total_equity > 0 /\ v.net_income # 0,
                 100 * v.net_income, v.total_equity, "Return on Equity (ROE)"),
           Block("roa", v.total_assets > 0 /\ v.net_income # 0,
                 100 * v.net_income, v.total_assets, "Return on Assets (ROA)"),
           Block("roic", invested_capital > 0 /\ v.net_income # 0,
                 100 * v.net_income, invested_capital, "Return on Invested Capital (ROIC)"),
           Block("interest_coverage", v.interest_expense > 0,
                 v.operating_income, v.interest_expense, "Interest Coverage Ratio"),
           Block("inventory_turnover", v.inventory > 0,
                 v.cost_of_goods_sold, v.inventory, "Inventory Turnover"),
           Block("receivables_ratio", v.revenue > 0,
                 v.accounts_receivable, v.revenue, "Receivables Ratio"),
           Block("operating_cash_flow_to_net_income", v.net_income # 0,
                 v.operating_cash_flow, v.net_income, "Operating Cash Flow/Net Income"),
           Block("capex_to_depreciation", v.depreciation_amortization > 0,
                 v.capex, v.depreciation_amortization, "Capex/Depreciation"),
           Block("book_value", v.total_equity > 0,
                 v.total_equity, 1000000, "Book Value"),
           Block("tangible_book_value", v.total_equity > 0,
                 v.total_equity, 1000000, "Tangible Book Value"),
           Block("net_working_capital_ratio", v.total_assets > 0,
                 v.current_assets - v.current_liabilities, v.total_assets,
                 "Net Working Capital Ratio"),
           Block("earnings_per_share", v.shares_outstanding > 0 /\ v.net_income # 0,
                 v.net_income, v.shares_outstanding, "Earnings Per Share") >>

\* the ratios dict: the items of the blocks whose guard holds, in order
calculate_ratios(v) ==
    LET emitted == SelectSeq(Blocks(v), LAMBDA b : b.guard)
    IN  [i \in DOMAIN emitted |->
            [k |-> emitted[i].key,
             v |-> create_ratio_result(emitted[i].amount, emitted[i].label)]]

---------------------------------------------------------------------------
(* Ratio runs *)

MaxEdits == 2

\* the amounts a value is set to
SampleValues == {-2, 0, 2, 5}

\* the extracted values of a filing with revenue 1000, gross profit 400,
\* equity 500, liabilities 300, current assets 200, current liabilities 100,
\* net income 90 and 10 shares; _extract_key_values sets every other key to 0.0
ExampleValues ==
    [k \in Range(ValueKeys) |->
        CASE k = "revenue"             -> 1000
          [] k = "gross_profit"        -> 400
          [] k = "total_equity"        -> 500
          [] k = "total_liabilities"   -> 300
          [] k = "current_assets"      -> 200
          [] k = "current_liabilities" -> 100
          [] k = "net_income"          -> 90
          [] k = "shares_outstanding"  -> 10
          [] OTHER                     -> 0]

\* the value sets a run starts from: nothing extracted, every key extracted,
\* and the example filing
Baselines ==
    { [k \in Range(ValueKeys) |-> 0], [k \in Range(ValueKeys) |-> 2], ExampleValues }

\* the number of keys on which v differs from the baseline b
Edits(v, b) == Cardinality({k \in Range(ValueKeys) : v[k] # b[k]})

InitRatios ==
    /\ phase = "ratios_input"
    /\ extracted_values \in Baselines
    /\ ratios = NoResult
    /\ report_type = ""
    /\ period = ""
    /\ facts = <<>>
    /\ categorized = NoResult
    /\ data = NoResult
    /\ financial_data = NoResult
    /\ ResolveIdle
    /\ CallerIdle

\* the caller hands over another complete value set
SetValue ==
    /\ phase = "ratios_input"
    /\ \E k \in Range(ValueKeys), x \in SampleValues :
          /\ extracted_values[k] # x
          /\ \E b \in Baselines :
                Edits([extracted_values EXCEPT ![k] = x], b) <= MaxEdits
          /\ extracted_values' = [extracted_values EXCEPT ![k] = x]
    /\ UNCHANGED <<phase, ratios, requestVars, callerVars, classifyVars, extractVars, resolveVars>>

CalculateRatios ==
    /\ phase = "ratios_input"
    /\ phase' = "ratios_done"
    /\ ratios' = calculate_ratios(extracted_values)
    /\ UNCHANGED <<extracted_values, requestVars, callerVars, classifyVars, extractVars, resolveVars>>

NextRatios == SetValue \/ CalculateRatios

SpecRatios == InitRatios /\ [][NextRatios]_vars

---------------------------------------------------------------------------
(* Properties of the ratio runs (SpecRatios) *)

RatioKeys == {ratios[i].k : i \in DOMAIN ratios}

\* the precondition the ratio table lists for each ratio
TablePrecondition(v) ==
    [gross_profit_margin |-> v.revenue > 0 /\ v.gross_profit > 0,
     operating_margin    |-> v.revenue > 0 /\ v.operating_income # 0,
     net_margin          |-> v.revenue > 0 /\ v.net_income # 0,
     ebitda_margin       |-> v.revenue > 0
                             /\ v.operating_income + v.depreciation_amortization # 0,
     current_ratio       |-> v.current_liabilities > 0,
     quick_ratio         |-> v.current_liabilities > 0,
     cash_ratio          |-> v.current_liabilities > 0,
     debt_to_equity      |-> v.total_equity > 0,
     debt_to_total_capitalization |-> v.total_liabilities + v.total_equity > 0,
     total_assets_to_equity |-> v.total_equity > 0,
     roe                 |-> v.total_equity > 0 /\ v.net_income # 0,
     roa                 |-> v.total_assets > 0 /\ v.net_income # 0,
     roic                |-> v.total_assets - v.current_liabilities > 0 /\ v.net_income # 0,
     interest_coverage   |-> v.interest_expense > 0,
     inventory_turnover  |-> v.inventory > 0,
     receivables_ratio   |-> v.revenue > 0,
     operating_cash_flow_to_net_income |-> v.net_income # 0,
     capex_to_depreciation |-> v.depreciation_amortization > 0,
     book_value          |-> v.total_equity > 0,
     tangible_book_value |-> v.total_equity > 0,
     net_working_capital_ratio |-> v.total_assets > 0,
     earnings_per_share  |-> v.shares_outstanding > 0 /\ v.net_income # 0]

\* C10: the mapping _calculate_ratios returns has a ratio of the ratio table
\* as a key exactly when the precondition the table lists for it holds of the
\* values, each key once; with current_liabilities 0 it has none of
\* current_ratio, quick_ratio, cash_ratio.
C10_RatioIffPrecondition ==
    phase = "ratios_done" =>
        /\ \A key \in DOMAIN TablePrecondition(extracted_values) :
              key \in RatioKeys <=> TablePrecondition(extracted_values)[key]
        /\ \A i, j \in DOMAIN ratios : ratios[i].k = ratios[j].k => i = j
        /\ extracted_values.current_liabilities = 0 =>
              RatioKeys \cap {"current_ratio", "quick_ratio", "cash_ratio"} = {}

\* current_liabilities is 0 in a value set that gives other ratios
C10_Witness ==
    /\ phase = "ratios_done"
    /\ extracted_values.current_liabilities = 0
    /\ extracted_values.current_assets > 0
    /\ "current_ratio" \notin RatioKeys
    /\ "debt_to_equity" \in RatioKeys

RatioOf(key) ==
    LET i == CHOOSE i \in DOMAIN ratios : ratios[i].k = key IN ratios[i].v

\* C27: on complete values, negative and zero amounts included, no division
\* of _calculate_ratios is reached with a zero denominator, so the function
\* raises nothing and returns a result for every block whose guard holds.
C27_NoDivisionByZero ==
    phase = "ratios_done" =>
        /\ \A i \in DOMAIN Blocks(extracted_values) : ~Blocks(extracted_values)[i].raises
        /\ \A i \in DOMAIN Blocks(extracted_values) :
              Blocks(extracted_values)[i].guard
                  => Blocks(extracted_values)[i].key \in RatioKeys

\* liabilities and equity cancel out, the current liabilities are 0, and
\* ratios over a negative net income are computed
C27_Witness ==
    /\ phase = "ratios_done"
    /\ extracted_values.total_liabilities + extracted_values.total_equity = 0
    /\ extracted_values.total_liabilities # 0
    /\ "debt_to_total_capitalization" \notin RatioKeys
    /\ "debt_to_equity" \notin RatioKeys
    /\ ratios # <<>>

\* C11: on the example filing's values _calculate_ratios gives
\* gross_profit_margin 40.0 formatted "40.00%", current_ratio 2.0,
\* debt_to_equity 0.6, roe 18.0 and earnings_per_share 9.0 formatted "$9.00":
\* each value is the table formula (100 * 400 / 1000, 200 / 100, 300 / 500,
\* 100 * 90 / 500, 90 / 10) to two decimals and the label selects the format.
C11_ExampleRatios ==
    (phase = "ratios_done" /\ extracted_values = ExampleValues) =>
        /\ {"gross_profit_margin", "current_ratio", "debt_to_equity", "roe",
             "earnings_per_share"} \subseteq RatioKeys
        /\ RatioOf("gross_profit_margin").value = 4000
        /\ FormattedText(RatioOf("gross_profit_margin").formatted) = "40.00%"
        /\ RatioOf("current_ratio").value = 200
        /\ FormattedText(RatioOf("current_ratio").formatted) = "2.00x"
        /\ RatioOf("debt_to_equity").value = 60
        /\ FormattedText(RatioOf("debt_to_equity").formatted) = "0.60"
        /\ RatioOf("roe").value = 1800
        /\ FormattedText(RatioOf("roe").formatted) = "18.00%"
        /\ RatioOf("earnings_per_share").value = 900
        /\ FormattedText(RatioOf("earnings_per_share").formatted) = "$9.00"

\* the ratios of the example filing have been calculated
C11_Witness ==
    /\ phase = "ratios_done"
    /\ extracted_values = ExampleValues
    /\ "earnings_per_share" \in RatioKeys
    /\ "roe" \in RatioKeys

\* mutant: 'roe' is declared with the label 'Return on Equity'
ratio_definitions_roe_relabelled ==
    [revenue |-> "Revenue",
     gross_profit_margin |-> "Gross Profit Margin",
     operating_margin |-> "Operating Margin",
     net_margin |-> "Net Margin",
     ebitda_margin |-> "EBITDA Margin",
     current_ratio |-> "Current Ratio",
     quick_ratio |-> "Quick Ratio",
     cash_ratio |-> "Cash Ratio",
     debt_to_equity |-> "Debt to Equity",
     debt_to_total_capitalization |-> "Debt to Total Capitalization",
     total_assets_to_equity |-> "Total Assets/Equity",
     roe |-> "Return on Equity",
     roa |-> "Return on Assets (ROA)",
     roic |-> "Return on Invested Capital (ROIC)",
     interest_coverage |-> "Interest Coverage Ratio",
     inventory_turnover |-> "Inventory Turnover",
     receivables_ratio |-> "Receivables Ratio",
     operating_cash_flow_to_net_income |-> "Operating Cash Flow/Net Income",
     capex_to_depreciation |-> "Capex/Depreciation",
     book_value |-> "Book Value",
     tangible_book_value |-> "Tangible Book Value",
     net_working_capital_ratio |-> "Net Working Capital Ratio",
     earnings_per_share |-> "Earnings Per Share"]

\* self.ratio_definitions (lines 11-35): the label declared for each key
ratio_definitions ==
    [revenue |-> "Revenue",
     gross_profit_margin |-> "Gross Profit Margin",
     operating_margin |-> "Operating Margin",
     net_margin |-> "Net Margin",
     ebitda_margin |-> "EBITDA Margin",
     current_ratio |-> "Current Ratio",
     quick_ratio |-> "Quick Ratio",
     cash_ratio |-> "Cash Ratio",
     debt_to_equity |-> "Debt to Equity",
     debt_to_total_capitalization |-> "Debt to Total Capitalization",
     total_assets_to_equity |-> "Total Assets/Equity",
     roe |-> "Return on Equity (ROE)",
     roa |-> "Return on Assets (ROA)",
     roic |-> "Return on Invested Capital (ROIC)",
     interest_coverage |-> "Interest Coverage Ratio",
     inventory_turnover |-> "Inventory Turnover",
     receivables_ratio |-> "Receivables Ratio",
     operating_cash_flow_to_net_income |-> "Operating Cash Flow/Net Income",
     capex_to_depreciation |-> "Capex/Depreciation",
     book_value |-> "Book Value",
     tangible_book_value |-> "Tangible Book Value",
     net_working_capital_ratio |-> "Net Working Capital Ratio",
     earnings_per_share |-> "Earnings Per Share"]

\* C30: every key of the dict _calculate_ratios returns is a key of
\* ratio_definitions, and the label of its entry is the label declared there.
C30_EmittedKeysAreDeclared ==
    phase = "ratios_done" =>
        \A i \in DOMAIN ratios :
            /\ ratios[i].k \in DOMAIN ratio_definitions
            /\ ratios[i].v.label = ratio_definitions[ratios[i].k]

\* a run that emits all twenty-three ratios
C30_Witness ==
    /\ phase = "ratios_done"
    /\ "roe" \in RatioKeys
    /\ Cardinality(RatioKeys) = 23

---------------------------------------------------------------------------
(* FinancialRatioCalculator._extract_key_values *)

\* the assignments of _extract_key_values in source order: the key, the
\* statement that is searched and the candidate concept names
key_candidates ==
    LET Row(key, statement, keywords) ==
            [key |-> key, statement |-> statement, keywords |-> keywords]
    IN  << Row("revenue", "income_statement",
               <<"us-gaap.Revenues", "us-gaap.SalesRevenueNet",
                 "us-gaap.RevenueFromContractWithCustomerExcludingAssessedTax">>),
           Row("gross_profit", "income_statement", <<"us-gaap.GrossProfit">>),
           Row("operating_income", "income_statement", <<"us-gaap.OperatingIncomeLoss">>),
           Row("net_income", "income_statement", <<"us-gaap.NetIncomeLoss">>),
           Row("cost_of_goods_sold", "income_statement",
               <<"us-gaap.CostOfGoodsAndServicesSold", "us-gaap.CostOfRevenue">>),
           Row("depreciation_amortization", "income_statement",
               <<"us-gaap.DepreciationAndAmortization">>),
           Row("interest_expense", "income_statement", <<"us-gaap.InterestExpense">>),
           Row("shares_outstanding", "balance_sheet",
               <<"us-gaap.CommonStockSharesOutstanding",
                 "us-gaap.EntityCommonStockSharesOutstanding",
                 "us-gaap.CommonStockSharesIssued", "us-gaap.CommonStockSharesAuthorized">>),
           Row("total_assets", "balance_sheet", <<"us-gaap.Assets">>),
           Row("current_assets", "balance_sheet", <<"us-gaap.AssetsCurrent">>),
           Row("total_liabilities", "balance_sheet", <<"us-gaap.Liabilities">>),
           Row("current_liabilities", "balance_sheet", <<"us-gaap.LiabilitiesCurrent">>),
           Row("total_equity", "balance_sheet", <<"us-gaap.StockholdersEquity">>),
           Row("cash", "balance_sheet",
               <<"us-gaap.CashAndCashEquivalentsAtCarryingValue",
                 "us-gaap.CashAndCashEquivalents">>),
           Row("inventory", "balance_sheet", <<"us-gaap.InventoryNet">>),
           Row("accounts_receivable", "balance_sheet",
               <<"us-gaap.AccountsReceivableNetCurrent">>),
           Row("operating_cash_flow", "cash_flow",
               <<"us-gaap.NetCashProvidedByUsedInOperatingActivities">>),
           Row("capex", "cash_flow",
               <<"us-gaap.PaymentsToAcquirePropertyPlantAndEquipment">>) >>

\* mutant: a candidate with a 'value' field is returned whatever the value
ValueReturnedWithNull(value_data) == "value" \in DOMAIN value_data

\* lines 180-182: value_data is a dict with a 'value' that is not None
\* (an entry of a bucket is a record; anything else has no field 'value')
ValueReturned(value_data) ==
    "value" \in DOMAIN value_data /\ value_data.value # JNull

RECURSIVE find_value_by_keywords(_, _)
\* _find_value_by_keywords: statement_data is the item list of a bucket;
\* float(value) of a number is the number
find_value_by_keywords(statement_data, keywords) ==
    IF keywords = <<>> THEN 0
    ELSE LET keyword == Head(keywords)
         IN  IF /\ HasKey([items |-> statement_data], keyword)
                /\ ValueReturned(Item([items |-> statement_data], keyword))
             THEN LET value == Item([items |-> statement_data], keyword).value
                  IN  IF value.t = "num" THEN value.n ELSE 0
             ELSE find_value_by_keywords(statement_data, Tail(keywords))

RECURSIVE float_raises(_, _)
\* line 184 of _find_value_by_keywords: float(value) of the first candidate
\* that is returned raises when the value is neither a number nor a string
\* that spells one
float_raises(statement_data, keywords) ==
    IF keywords = <<>> THEN FALSE
    ELSE LET keyword == Head(keywords)
         IN  IF /\ HasKey([items |-> statement_data], keyword)
                /\ ValueReturned(Item([items |-> statement_data], keyword))
             THEN LET value == Item([items |-> statement_data], keyword).value
                  IN  /\ value.t # "num"
                      /\ ~(/\ value.t = "str"
                           /\ IsDigitWithoutDotDash(value.s)
                           /\ FloatParses(value.s))
             ELSE float_raises(statement_data, Tail(keywords))

\* _extract_key_values: the values dict
extract_key_values(income_statement, balance_sheet, cash_flow) ==
    LET searched == [income_statement |-> income_statement,
                     balance_sheet    |-> balance_sheet,
                     cash_flow        |-> cash_flow]
        row(k) == key_candidates[CHOOSE i \in DOMAIN key_candidates :
                                    key_candidates[i].key = k]
    IN  [k \in {key_candidates[i].key : i \in DOMAIN key_candidates} |->
            find_value_by_keywords(searched[row(k).statement], row(k).keywords)]

\* d.get(statement_type, {}) on a returned dict
BucketOf(bundle, statement_type) ==
    IF statement_type \in bundle.keys THEN bundle[statement_type] ELSE <<>>

\* calculate_single_company_ratios, lines 40-48: the buckets are read with
\* financial_data.get(statement, {}); the values go to 'raw_values' and the
\* ratios to 'ratios' of the returned dict; lines 57-59: an exception of the
\* extraction is caught and {'error': str(e)} is returned
calculate_single_company_ratios(bundle) ==
    LET raw_values == extract_key_values(BucketOf(bundle, "income_statement"),
                                         BucketOf(bundle, "balance_sheet"),
                                         BucketOf(bundle, "cash_flow"))
    IN  IF \E i \in DOMAIN key_candidates :
              float_raises(BucketOf(bundle, key_candidates[i].statement),
                           key_candidates[i].keywords)
        THEN [error |-> "could not convert string to float"]
        ELSE [ratios |-> calculate_ratios(raw_values), raw_values |-> raw_values]

---------------------------------------------------------------------------
(* Repeated calls of _calculate_ratios on one calculator *)

MaxCalls == 3

\* mutant: the mapping of the previous call is carried into the next one
fresh_ratios_kept(previous) == previous

\* ratios = {} (line 193): each call fills a mapping of its own
fresh_ratios(previous) == <<>>

\* the assignments ratios[key] = ... of one call applied to a mapping
Assigned(mapping, assignments) ==
    SelectSeq(mapping, LAMBDA e : \A i \in DOMAIN assignments : assignments[i].k # e.k)
        \o assignments

\* another call on the same calculator, after the call whose values and
\* result are in extracted_values and ratios; `resolved` keeps the earlier calls
CalculateRatiosAgain ==
    /\ phase = "ratios_done"
    /\ Len(resolved) + 1 < MaxCalls
    /\ \E values \in Baselines
            \cup { [ExampleValues EXCEPT !.current_liabilities = 0],
                   [ExampleValues EXCEPT !.revenue = 0],
                   [ExampleValues EXCEPT !.net_income = -2] } :
          /\ extracted_values' = values
          /\ ratios' = Assigned(fresh_ratios(ratios), calculate_ratios(values))
    /\ resolved' = Append(resolved, [values |-> extracted_values, ratios |-> ratios])
    /\ UNCHANGED <<phase, requestVars, caller, requests, aggregate, response,
                   classifyVars, extractVars, resolveVars>>

NextRepeat == CalculateRatios \/ CalculateRatiosAgain

SpecRepeat == InitRatios /\ [][NextRepeat]_vars

\* the calls made so far, the last one included
Calls == Append(resolved, [values |-> extracted_values, ratios |-> ratios])

---------------------------------------------------------------------------
(* Value extraction runs *)

MaxEntries == 2

\* the entries the buckets of a run are filled with: candidates of 'revenue'
\* and of 'total_assets', with a value, with a null value, without a value
\* field, and an item that is not a dict
SampleItems ==
    { [k |-> key, v |-> value_data] :
        key \in {"us-gaap.Revenues", "us-gaap.SalesRevenueNet",
                 "us-gaap.RevenueFromContractWithCustomerExcludingAssessedTax",
                 "us-gaap.Assets"},
        value_data \in {[value |-> JN(5), unit |-> "USD"], [value |-> JN(7), unit |-> "USD"],
                        [value |-> JNull, unit |-> "USD"], [unit |-> "USD"], JS("n/a")} }

Entries(bundle) ==
    Len(bundle.income_statement) + Len(bundle.balance_sheet) + Len(bundle.cash_flow)

InitValues ==
    /\ phase = "values_input"
    /\ financial_data = Bundle(BaseKeys, EmptyStatements, <<>>)
    /\ RatiosIdle
    /\ CallerIdle
    /\ report_type = ""
    /\ period = ""
    /\ facts = <<>>
    /\ categorized = NoResult
    /\ data = NoResult
    /\ ResolveIdle

\* the caller's bundle has one more classified entry
AddEntry ==
    /\ phase = "values_input"
    /\ Entries(financial_data) < MaxEntries
    /\ \E statement \in Range(StatementTypes), item \in SampleItems :
          /\ ~HasKey([items |-> financial_data[statement]], item.k)
          /\ financial_data' =
                [financial_data EXCEPT ![statement] = Append(@, item)]
    /\ UNCHANGED <<phase, requestVars, callerVars, facts, categorized, data,
                   resolveVars, ratioVars>>

CalculateSingleCompanyRatios ==
    /\ phase = "values_input"
    /\ phase' = "values_done"
    /\ LET single == calculate_single_company_ratios(financial_data)
       IN  IF "error" \in DOMAIN single
           THEN extracted_values' = NoResult /\ ratios' = <<>>
           ELSE extracted_values' = single.raw_values /\ ratios' = single.ratios
    /\ UNCHANGED <<requestVars, callerVars, facts, categorized, data, financial_data,
                   resolveVars>>

NextValues == AddEntry \/ CalculateSingleCompanyRatios

SpecValues == InitValues /\ [][NextValues]_vars

---------------------------------------------------------------------------
(* Properties of the value extraction runs (SpecValues) *)

\* the candidate is a key of the statement with a value that is not null
Qualifies(statement, candidate) ==
    \E i \in DOMAIN financial_data[statement] :
        /\ financial_data[statement][i].k = candidate
        /\ "value" \in DOMAIN financial_data[statement][i].v
        /\ financial_data[statement][i].v.value # JNull

ValueOf(statement, candidate) ==
    LET i == CHOOSE i \in DOMAIN financial_data[statement] :
                financial_data[statement][i].k = candidate
    IN  financial_data[statement][i].v.value.n

\* C12: every semantic key is a key of the extracted values; its value is
\* that of the first candidate, in list order, that is in the searched
\* statement with a value that is not null (a candidate with a null value or
\* without a value field is passed over), and 0 when there is none.
C12_FirstCandidateWithValue ==
    phase = "values_done" =>
        /\ DOMAIN extracted_values = Range(ValueKeys)
        /\ \A r \in DOMAIN key_candidates :
              LET row  == key_candidates[r]
                  hits == {j \in DOMAIN row.keywords :
                              Qualifies(row.statement, row.keywords[j])}
              IN  IF hits = {}
                  THEN extracted_values[row.key] = 0
                  ELSE \E j \in hits :
                          /\ \A h \in hits : j <= h
                          /\ extracted_values[row.key]
                                = ValueOf(row.statement, row.keywords[j])

\* revenue is taken from the second candidate: the first has a null value
C12_Witness ==
    /\ phase = "values_done"
    /\ \E i \in DOMAIN financial_data.income_statement :
          /\ financial_data.income_statement[i].k = "us-gaap.Revenues"
          /\ financial_data.income_statement[i].v = [value |-> JNull, unit |-> "USD"]
    /\ Qualifies("income_statement", "us-gaap.SalesRevenueNet")
    /\ extracted_values.revenue = 7

\* C26: when the concept of an extracted document is a candidate name of a
\* key of the values dict, has no label and has a fact that belongs to the
\* request, the extraction stores it in the statement in which
\* _extract_key_values looks that key up.
C26_CandidateInSearchedStatement ==
    phase = "extract_done" =>
        \A r \in DOMAIN key_candidates :
            \A c \in DOMAIN key_candidates[r].keywords :
                (/\ key_candidates[r].keywords[c] = "us-gaap." \o DocConcept(data).k
                 /\ Item(DocConcept(data).v, "label").s = ""
                 /\ \E i \in DOMAIN DocFacts(data) :
                       BelongsToRequest(DocFacts(data)[i].value, report_type, period))
                => \E e \in DOMAIN financial_data[key_candidates[r].statement] :
                       financial_data[key_candidates[r].statement][e].k
                           = key_candidates[r].keywords[c]

---------------------------------------------------------------------------
(* FinancialRatioCalculator.calculate_peer_group_ratios *)

\* mutant: a company is listed only when one of its ratio sets is not empty
calculate_peer_group_ratios_with_data(peer_group_data) ==
    SelectSeq(peer_group_data,
              LAMBDA c : IF "periods" \in c.v.keys
                         THEN \E j \in DOMAIN c.v.periods :
                                 LET single == calculate_single_company_ratios(
                                                   c.v.periods[j].v)
                                 IN  "error" \in DOMAIN single \/ single.ratios # <<>>
                         ELSE LET single == calculate_single_company_ratios(c.v)
                              IN  "error" \in DOMAIN single \/ single.ratios # <<>>)

\* peer_ratios of calculate_peer_group_ratios (lines 66-83): company_data is
\* a bundle, or a dict with a 'periods' dict of bundles
calculate_peer_group_ratios(peer_group_data) ==
    [i \in DOMAIN peer_group_data |->
        [k |-> peer_group_data[i].k,
         v |-> LET company_data == peer_group_data[i].v
               IN  IF "periods" \in company_data.keys
                   THEN [periods |->
                           [j \in DOMAIN company_data.periods |->
                               [k |-> company_data.periods[j].k,
                                v |-> calculate_single_company_ratios(
                                          company_data.periods[j].v)]]]
                   ELSE [ratios |-> calculate_single_company_ratios(company_data)]]]

\* 'companies_with_data' of the summary (line 89): the entries of peer_ratios
\* that have no key 'error'; an entry has the keys 'company_name' and
\* 'ratios' or 'periods'
companies_with_data(peer_ratios) ==
    Cardinality({i \in DOMAIN peer_ratios : "error" \notin DOMAIN peer_ratios[i].v})

MaxCompanies == 2

Tickers == <<"AAPL", "MSFT", "GOOG">>

\* the dicts get_financial_statements hands to the peer group: nothing
\* classified, only 'matching_filing', some classified values, a Tier 1 dict,
\* a dict whose revenue value is a string that spells no number
PeerBundles ==
    LET entry(n) == [value |-> JN(n), unit |-> "USD"]
    IN  { Bundle(BaseKeys, EmptyStatements, <<>>),
          Bundle({"matching_filing"}, EmptyStatements, <<>>),
          Bundle(BaseKeys,
                 [income_statement |-> <<[k |-> "us-gaap.Revenues", v |-> entry(1000)],
                                         [k |-> "us-gaap.NetIncomeLoss", v |-> entry(90)]>>,
                  balance_sheet    |-> <<[k |-> "us-gaap.StockholdersEquity", v |-> entry(500)]>>,
                  cash_flow        |-> <<>>], <<>>),
          Bundle(XbrlKeys, EmptyStatements,
                 categorize_financial_data(<<"Revenues", "Assets">>)),
          Bundle(BaseKeys,
                 [income_statement |-> <<[k |-> "us-gaap.Revenues",
                                          v |-> [value |-> JS("N/A"), unit |-> "USD"]]>>,
                  balance_sheet    |-> <<>>,
                  cash_flow        |-> <<>>], <<>>) }

\* company_data of the peer-group handler (api/analysis.py lines 396-400)
WithPeriods(periods) ==
    [keys |-> {"company_name", "cik", "periods"}, periods |-> periods]

InitPeerRatios ==
    /\ phase = "peers_input"
    /\ caller = "none"
    /\ requests = <<>>
    /\ resolved = <<>>
    /\ aggregate = <<>>
    /\ response = NoResult
    /\ report_type = ""
    /\ period = ""
    /\ facts = <<>>
    /\ categorized = NoResult
    /\ data = NoResult
    /\ financial_data = NoResult
    /\ ResolveIdle
    /\ RatiosIdle

\* one more company in peer_group_data
AddCompany ==
    /\ phase = "peers_input"
    /\ Len(aggregate) < MaxCompanies
    /\ \E company_data \in PeerBundles
            \cup {WithPeriods(<<[k |-> "2023", v |-> b]>>) : b \in PeerBundles}
            \cup {WithPeriods(<<[k |-> "2023", v |-> b1], [k |-> "2022", v |-> b2]>>) :
                    b1 \in PeerBundles, b2 \in PeerBundles} :
          aggregate' = Append(aggregate,
                              [k |-> Tickers[Len(aggregate) + 1], v |-> company_data])
    /\ UNCHANGED <<phase, requestVars, caller, requests, resolved, response,
                   classifyVars, extractVars, resolveVars, ratioVars>>

CalculatePeerGroupRatios ==
    /\ phase = "peers_input"
    /\ phase' = "peers_done"
    /\ LET peer_ratios == calculate_peer_group_ratios(aggregate)
       IN  response' = [peer_group_ratios   |-> peer_ratios,
                        total_companies     |-> Len(peer_ratios),
                        companies_with_data |-> companies_with_data(peer_ratios)]
    /\ UNCHANGED <<requestVars, caller, requests, resolved, aggregate,
                   classifyVars, extractVars, resolveVars, ratioVars>>

NextPeerRatios == AddCompany \/ CalculatePeerGroupRatios

SpecPeerRatios == InitPeerRatios /\ [][NextPeerRatios]_vars

ReturnedError(entry) ==
    IF "periods" \in DOMAIN entry
    THEN \E j \in DOMAIN entry.periods : "error" \in DOMAIN entry.periods[j].v
    ELSE "error" \in DOMAIN entry.ratios

\* C29: in the summary of calculate_peer_group_ratios, total_companies is the
\* number of companies of the input and companies_with_data is the number of
\* those companies whose ratio calculation returned no error.
C29_SummaryCounts ==
    phase = "peers_done" =>
        /\ response.total_companies = Len(aggregate)
        /\ response.companies_with_data
              = Cardinality({i \in DOMAIN response.peer_group_ratios :
                                ~ReturnedError(response.peer_group_ratios[i].v)})

---------------------------------------------------------------------------
(* The callers of get_financial_statements: the financials endpoint,
   get_financial_statements_multiple_years and get_peer_group_analysis *)

Request(cik, per) == [cik |-> cik, period |-> per]

\* the (cik, period) pairs a caller asks for, in order
RequestsOf(c) ==
    CASE c = "financials" ->
            {<<Request("320193", per)>> : per \in ResolvePeriods}
      [] c = "multiple_years" ->
            {<<Request("320193", "2023"), Request("320193", "2021")>>,
             <<Request("320193", "2023"), Request("320193", "2023")>>}
      [] c = "peer_group" ->
            {<<Request("320193", "2023"), Request("789019", "2023")>>}

InitCallers ==
    /\ caller \in {"financials", "multiple_years", "peer_group"}
    /\ requests \in RequestsOf(caller)
    /\ resolved = <<>>
    /\ aggregate = <<>>
    /\ response = NoResult
    /\ phase = "t1_filings"
    /\ report_type = "10-K"
    /\ period = requests[1].period
    /\ facts = <<>>
    /\ categorized = NoResult
    /\ data = NoResult
    /\ financial_data = NoResult
    /\ endpoint = 1
    /\ calls = <<>>
    /\ accession = ""
    /\ xbrl_files = {}
    /\ instance_data = NoResult
    /\ xbrl_data = NoResult
    /\ returned_by = 0
    /\ result = NoResult
    /\ RatiosIdle

\* get_financial_statements has returned to its caller, which holds
\* new_aggregate from now on: the caller makes its next call, or returns
\* final_response when the loop is over
ReturnToCaller(new_aggregate, final_response) ==
    LET done == Len(resolved) + 1
    IN  /\ resolved' = Append(resolved, [cik    |-> requests[done].cik,
                                        period |-> period,
                                        tier   |-> returned_by,
                                        result |-> result])
        /\ aggregate' = new_aggregate
        /\ IF done < Len(requests)
           THEN /\ phase' = "t1_filings"
                /\ period' = requests[done + 1].period
                /\ endpoint' = 1
                /\ response' = response
           ELSE /\ phase' = "returned"
                /\ period' = period
                /\ endpoint' = 0
                /\ response' = final_response
        /\ calls' = <<>>
        /\ accession' = ""
        /\ xbrl_files' = {}
        /\ instance_data' = NoResult
        /\ xbrl_data' = NoResult
        /\ returned_by' = 0
        /\ result' = NoResult
        /\ data' = NoResult
        /\ UNCHANGED <<report_type, caller, requests, classifyVars, financial_data, ratioVars>>

\* line 618: year_data and any(year_data.get(statement_type) for the three)
YearKept(year_data) ==
    /\ year_data.keys # {}
    /\ \E statement_type \in Range(StatementTypes) :
          BucketOf(year_data, statement_type) # <<>>

\* get_financial_statements_multiple_years: the body of the loop for one
\* period (lines 616-623) and, after the last period, lines 625-639
\* (trend_analysis is derived from historical_data and is left out)
CollectYear ==
    /\ phase = "done"
    /\ caller = "multiple_years"
    /\ LET historical_data == IF YearKept(result)
                              THEN DictSet(aggregate, period, result)
                              ELSE aggregate
           kept == SelectSeq(Append(resolved, [period |-> period, result |-> result]),
                             LAMBDA r : YearKept(r.result))
           available_periods == [i \in DOMAIN kept |-> kept[i].period]   \* line 620
       IN  ReturnToCaller(historical_data,
              IF historical_data = <<>>
              THEN [keys |-> {}, historical_data |-> <<>>, available_years |-> <<>>]
              ELSE [keys |-> {"company_cik", "report_type", "available_years",
                              "historical_data", "trend_analysis"},
                    historical_data |-> historical_data,
                    available_years |-> available_periods])

\* get_peer_group_analysis: the body of the loop for one cik (lines 675-686)
\* and, after the last cik, lines 688-693: peer_group_data is returned, and
\* it is {} when nothing was stored
CollectCompany ==
    /\ phase = "done"
    /\ caller = "peer_group"
    /\ LET peer_group_data ==
               IF result.keys # {}
               THEN DictSet(aggregate, requests[Len(resolved) + 1].cik, result)
               ELSE aggregate
       IN  ReturnToCaller(peer_group_data,
              [keys |-> DictKeys(peer_group_data), peer_group_data |-> peer_group_data])

\* the financials endpoint from its call of get_financial_statements on
\* (api/financials.py lines 73-102): 404 when the result is falsy, otherwise
\* a FinancialReport of the three statements is stored and returned
StoreReport ==
    /\ phase = "done"
    /\ caller = "financials"
    /\ LET financial_report ==
               [income_statement |-> BucketOf(result, "income_statement"),
                balance_sheet    |-> BucketOf(result, "balance_sheet"),
                cash_flow        |-> BucketOf(result, "cash_flow")]
       IN  IF result.keys = {}
           THEN ReturnToCaller(aggregate, [status |-> 404])
           ELSE ReturnToCaller(Append(aggregate, [k |-> period, v |-> financial_report]),
                               [status |-> 200, report |-> financial_report])

NextCallers == NextResolve \/ CollectYear \/ CollectCompany \/ StoreReport

SpecCallers == InitCallers /\ [][NextCallers]_vars

---------------------------------------------------------------------------
(* Properties of the callers (SpecCallers) *)

\* the periods of the calls of get_financial_statements that have returned
ResolvedPeriods == [i \in DOMAIN resolved |-> resolved[i].period]

\* C13: get_financial_statements_multiple_years calls get_financial_statements
\* once for each period, in order; when it returns, every period whose call
\* returned a non-empty dict is a key of historical_data, a period whose call
\* returned {} is not, and it returns {} only if every call returned {}.
C13_EveryNonEmptyYearKept ==
    (caller = "multiple_years" /\ phase = "returned") =>
        /\ ResolvedPeriods = [i \in DOMAIN requests |-> requests[i].period]
        /\ \A i \in DOMAIN resolved :
              resolved[i].result.keys # {}
                  <=> resolved[i].period \in DictKeys(response.historical_data)
        /\ response.keys = {} => \A i \in DOMAIN resolved : resolved[i].result.keys = {}

\* C14: when get_peer_group_analysis returns after one company's call gave
\* classified statements and the other company's call gave {} (every tier
\* exhausted), the dict it returns has an entry for both companies and the
\* entry of the second is empty.
C14_FailedCompanyPresentAndEmpty ==
    (caller = "peer_group" /\ phase = "returned") =>
        \A i, j \in DOMAIN resolved :
            (/\ Populated(resolved[i].result)
             /\ resolved[j].tier = 0
             /\ resolved[j].result = EmptyDict) =>
                /\ Cardinality(response.keys) = 2
                /\ resolved[j].cik \in response.keys
                /\ Item([items |-> response.peer_group_data], resolved[j].cik) = EmptyDict

\* C17: when the call made by the financials endpoint went through every
\* tier and classified nothing, its result is {}, the endpoint answers 404
\* and no FinancialReport is stored.
C17_NothingClassifiedIsNotFound ==
    (/\ caller = "financials"
     /\ phase = "returned"
     /\ resolved[1].tier \in {0, 3}
     /\ ~Populated(resolved[1].result)) =>
        /\ resolved[1].result = EmptyDict
        /\ response.status = 404
        /\ aggregate = <<>>

\* C28: in a non-empty result of get_financial_statements_multiple_years
\* available_years lists the keys of historical_data, each once, in the
\* order of the requested periods, also when a period is requested twice.
C28_AvailableYearsAreTheKeys ==
    (phase = "returned" /\ caller = "multiple_years" /\ response.keys # {}) =>
        /\ Len(response.available_years) = Len(response.historical_data)
        /\ \A i \in DOMAIN response.available_years :
              response.available_years[i] = response.historical_data[i].k
        /\ \A i, j \in DOMAIN response.available_years :
              response.available_years[i] = response.available_years[j] => i = j

====
